---- MODULE Spec2Model ----
(***************************************************************************)
(* Model of the ai-chat core: the chat orchestration service               *)
(* (services/chat.py), the two provider adapters (providers/bedrock.py,    *)
(* providers/openai_compatible.py) and the part of the persistence store   *)
(* the service writes to (services/storage.py).                            *)
(*                                                                         *)
(* Text is a sequence of one-character tokens, "" is << >>, and string     *)
(* concatenation is \o.  None and the empty list are both << >> where the  *)
(* code only tests truthiness.                                             *)
(***************************************************************************)
EXTENDS Integers, Sequences, FiniteSets, TLC

(* ---------------------------------------------------------------------- *)
(* Bounds                                                                  *)
(* ---------------------------------------------------------------------- *)
\* stream_response calls and conversations created, per behaviour of Spec
MaxOps == 2
\* wire events per stream: Spec, SpecCall, SpecAdapter
MaxWire == 1
MaxWireC == 3
MaxWireA == 3

(* ---------------------------------------------------------------------- *)
(* Configuration (config/models.py)                                        *)
(* ---------------------------------------------------------------------- *)
NoText == << >>

ModelConfig(provider, name, img, doc, mid) ==
  [provider |-> provider, name |-> name, supports_images |-> img,
   supports_documents |-> doc, model_id |-> mid]

ConfigModels ==
  [k \in {"local", "claude", "titan"} |->
     CASE k = "local"  -> ModelConfig("openai_compatible", "Local", TRUE, FALSE, NoText)
       [] k = "claude" -> ModelConfig("bedrock", "Claude", FALSE, FALSE,
                                      <<"C", "l", "a", "u", "d", "e">>)
       [] k = "titan"  -> ModelConfig("bedrock", "Titan", TRUE, TRUE,
                                      <<"t", "i", "t", "a", "n">>)]

AgentConfig(name, instructions, sources, inject) ==
  [name |-> name, instructions |-> instructions, knowledge_sources |-> sources,
   inject_knowledge_automatically |-> inject]

\* the knowledge sources that agents declare, by name
DeclaredSources == <<"s1", "s2", "s3", "s4">>

ConfigAgents ==
  [k \in {"default", "coder", "plain", "bare"} |->
     IF k = "default" THEN AgentConfig("Regular Chat", NoText, << >>, TRUE)
     ELSE IF k = "coder"
     THEN AgentConfig("Coder", <<"i">>, DeclaredSources, TRUE)
     ELSE IF k = "plain"
     THEN AgentConfig("Plain", <<"p">>, DeclaredSources, FALSE)
     ELSE AgentConfig("Bare", <<"w">>, << >>, TRUE)]

ModelKeys == DOMAIN ConfigModels
AgentKeys == DOMAIN ConfigAgents
DefaultModel == "local"
DefaultAgent == "default"

\* keys a caller may pass that the configuration does not know
UnknownKey == "gone"
KeyInputs == {"local", "claude", UnknownKey}
AgentInputs == {"default", "coder", UnknownKey}

(* ---------------------------------------------------------------------- *)
(* Text helpers                                                            *)
(* ---------------------------------------------------------------------- *)
Lower(s) ==
  [i \in 1..Len(s) |-> IF s[i] = "C" THEN "c" ELSE s[i]]

Contains(s, sub) ==
  \E i \in 0..(Len(s) - Len(sub)) :
     \A j \in 1..Len(sub) : s[i + j] = sub[j]

ClaudeWord == <<"c", "l", "a", "u", "d", "e">>

RECURSIVE ConcatField(_, _)
ConcatField(chunks, f) ==
  IF chunks = << >> THEN << >>
  ELSE chunks[1][f] \o ConcatField(Tail(chunks), f)

(* ---------------------------------------------------------------------- *)
(* Data model (providers/base.py)                                          *)
(* ---------------------------------------------------------------------- *)
Message(role, content, images, documents) ==
  [role |-> role, content |-> content, images |-> images, documents |-> documents]

StreamChunk(content, reasoning, is_reasoning, done) ==
  [content |-> content, reasoning |-> reasoning,
   is_reasoning |-> is_reasoning, done |-> done]

ContentChunk(t) == StreamChunk(t, NoText, FALSE, FALSE)
\* a reasoning chunk that repeats its text as content
ReasoningChunkWithContent(t) == StreamChunk(t, t, TRUE, FALSE)

ReasoningChunk(t) == StreamChunk(NoText, t, TRUE, FALSE)
DoneChunk == StreamChunk(NoText, NoText, FALSE, TRUE)

(* ---------------------------------------------------------------------- *)
(* Provider feature queries                                                *)
(* ---------------------------------------------------------------------- *)
BedrockSupports(cfg, feature) ==
  CASE feature = "images"    -> Contains(Lower(cfg.model_id), ClaudeWord)
    [] feature = "documents" -> Contains(Lower(cfg.model_id), ClaudeWord)
    [] OTHER                 -> FALSE

OpenAISupports(cfg, feature) ==
  CASE feature = "images"    -> cfg.supports_images
    [] feature = "documents" -> cfg.supports_documents
    [] OTHER                 -> FALSE

supports_feature(cfg, feature) ==
  IF cfg.provider = "bedrock" THEN BedrockSupports(cfg, feature)
                                      ELSE OpenAISupports(cfg, feature)

(* ---------------------------------------------------------------------- *)
(* Wire events.  One record shape for both protocols:                      *)
(*   t    the event type / line class                                      *)
(*   idx  contentBlockIndex (cloud)                                        *)
(*   kind block-start classification (cloud) or data payload class (HTTP)  *)
(*   has  the delta carries a "text" key (cloud) / the payload has a       *)
(*        non-empty choices list (HTTP)                                    *)
(*   text delta text (cloud) / delta.content (HTTP)                        *)
(*   fin  metadata carries stopReason (cloud) / choice.finish_reason set   *)
(*   exc  exception the transport raises instead of delivering an event    *)
(* ---------------------------------------------------------------------- *)
\* str.strip() and its halves, on sequences of characters
IsSpace(c) == c \in {" ", "\t", "\n"}

RECURSIVE LStrip(_)
LStrip(s) == IF s # << >> /\ IsSpace(Head(s)) THEN LStrip(Tail(s)) ELSE s

RECURSIVE RStrip(_)
RStrip(s) ==
  IF s # << >> /\ IsSpace(s[Len(s)]) THEN RStrip(SubSeq(s, 1, Len(s) - 1)) ELSE s

Strip(s) == RStrip(LStrip(s))
startswith(s, prefix) ==
  Len(s) >= Len(prefix) /\ SubSeq(s, 1, Len(prefix)) = prefix

Event(t, idx, kind, has, text, fin, exc) ==
  [t |-> t, idx |-> idx, kind |-> kind, has |-> has, text |-> text,
   fin |-> fin, exc |-> exc, line |-> << >>, rest |-> << >>]

BStart(i, k)      == Event("contentBlockStart", i, k, FALSE, NoText, FALSE, "")
BDelta(i, h, txt) == Event("contentBlockDelta", i, "", h, txt, FALSE, "")
BMeta(stop)       == Event("metadata", 0, "", FALSE, NoText, stop, "")
BMessageStop      == Event("messageStop", 0, "", FALSE, NoText, FALSE, "")
BError            == Event("error", 0, "", FALSE, NoText, FALSE, "")
BOther            == Event("contentBlockStop", 0, "", FALSE, NoText, FALSE, "")

\* An SSE line as the characters of its text.  "data:" and "[DONE]" stand
\* for those runs of characters, "{}" for the text of a JSON object (whose
\* first choice is in has, text, fin and whose further choices are in rest),
\* "{" for text that json.loads rejects.
DataPrefix == <<"data:", " ">>
DoneMarker == <<"[DONE]">>
JsonObject == <<"{}">>
\* the text of a JSON value that is not an object
JsonScalar == <<"5">>

\* the class of a line, for the event record: what the parser's tests decide
LineType(raw) ==
  LET line == Strip(raw) IN
    IF line = << >> THEN "blank"
    ELSE IF startswith(line, <<":">>) THEN "comment"
    ELSE IF startswith(line, DataPrefix) THEN "data"
    ELSE "noprefix"

DataOf(raw) ==
  LET line == Strip(raw) IN Strip(SubSeq(line, Len(DataPrefix) + 1, Len(line)))

DataKind(raw) ==
  IF LineType(raw) # "data" THEN ""
  ELSE IF DataOf(raw) = DoneMarker THEN "[DONE]"
  ELSE IF DataOf(raw) = JsonObject THEN "json"
  ELSE IF DataOf(raw) = JsonScalar THEN "scalar"
  ELSE "malformed"

Choice(content, finish) == [content |-> content, finish_reason |-> finish]

SSELine(raw, h, txt, f, rest) ==
  [Event(LineType(raw), 0, DataKind(raw), h, txt, f, "")
     EXCEPT !.line = raw, !.rest = rest]

Line(raw)         == SSELine(raw, FALSE, NoText, FALSE, << >>)
LBlank            == Line(<< >>)
LComment          == Line(<<":", "x">>)
LNoPrefix         == Line(<<"x">>)
LDone             == Line(DataPrefix \o DoneMarker)
LMalformed        == Line(DataPrefix \o <<"{">>)
LScalar           == Line(DataPrefix \o JsonScalar)
LJson(h, txt, f)  == SSELine(DataPrefix \o JsonObject, h, txt, f, << >>)
\* a JSON line with further choices after the first
LJsonMore(h, txt, f, rest) == SSELine(DataPrefix \o JsonObject, h, txt, f, rest)

\* lines that need the strip() calls and the exact prefix to be classified
RawLines ==
  { <<" ">>,                                       \* blank after strip
    <<" ", ":", "x">>,                             \* comment after strip
    <<"data:", "[DONE]">>,                         \* no space: not the prefix
    <<"data:", " ">>,                              \* strips to a bare data:
    <<" ", "data:", " ", " ", "[DONE]", " ">> }    \* padded end marker

Raise(exc)        == Event("raise", 0, "", FALSE, NoText, FALSE, exc)
EndOfStream       == Event("eof", 0, "", FALSE, NoText, FALSE, "")

Texts == {NoText, <<"a">>, <<"b">>}
BlockIndexes == {0, 1}

\* exceptions the transports raise, by adapter
\* "ClientError" stands for a ClientError whose response has no error code
ClientErrors == {"ThrottlingException", "UnrecognizedClientException",
                 "InvalidSignatureException", "AccessDeniedException",
                 "ResourceNotFoundException", "ValidationException",
                 "ClientError"}
BedrockExceptions == ClientErrors \cup {"BotoCoreError", "RuntimeError"}
HttpExceptions == {"ConnectError", "TimeoutException", "ReadError"}

BedrockEvents ==
     {BStart(i, k) : i \in BlockIndexes, k \in {"thinking", "text", "nostart"}}
  \cup {BDelta(i, TRUE, txt) : i \in BlockIndexes, txt \in Texts}
  \cup {BDelta(i, FALSE, NoText) : i \in BlockIndexes}
  \cup {BMeta(TRUE), BMeta(FALSE), BMessageStop, BError, BOther}

HttpEvents ==
     {LBlank, LComment, LNoPrefix, LDone, LMalformed, LScalar}
  \cup {Line(raw) : raw \in RawLines}
  \cup {LJson(TRUE, txt, f) : txt \in Texts, f \in BOOLEAN}
  \cup {LJson(FALSE, NoText, FALSE)}
  \cup {LJsonMore(TRUE, NoText, FALSE, <<Choice(<<"b">>, TRUE)>>),
        LJsonMore(TRUE, <<"a">>, FALSE, <<Choice(<<"b">>, TRUE)>>)}

\* the smaller alphabets the service-level specification draws from
SvcBedrockEvents ==
  {BStart(0, "thinking"), BDelta(0, TRUE, <<"a">>), BMessageStop,
   Raise("ThrottlingException")}

SvcHttpEvents ==
  {LJson(TRUE, <<"a">>, FALSE), LDone, Raise("TimeoutException")}

\* the alphabets of the single-call specification
CallBedrockEvents ==
  {BStart(0, "thinking"), BStart(0, "text"),
   BDelta(0, TRUE, <<"a">>), BDelta(1, TRUE, <<"b">>), BDelta(0, TRUE, NoText),
   BMeta(TRUE), BMessageStop, BError, Raise("ThrottlingException")}

CallHttpEvents ==
  {LJson(TRUE, <<"a">>, FALSE), LJson(TRUE, <<"b">>, TRUE),
   LJson(TRUE, NoText, TRUE), LDone, LMalformed, Raise("TimeoutException")}

(* ---------------------------------------------------------------------- *)
(* Exception mapping of the two stream_chat wrappers                       *)
(* ---------------------------------------------------------------------- *)
\* an exception value: its class and its message
Exc(kind, msg) == [kind |-> kind, msg |-> msg]
NoExc == Exc("", NoText)

\* the exception a transport raises, with str(e) as its message
TransportExc(x) == Exc(x, <<"str", x>>)

\* e.response["Error"]["Code"] and ["Message"] of a ClientError
ErrorCode(x) == IF x = "ClientError" THEN "" ELSE x
ErrorMessage(x) == <<"Message", x>>

\* except clauses that lack the access-denied branch
BedrockExceptNoAccessBranch(e) ==
  IF e.kind \in ClientErrors
  THEN LET error_code == ErrorCode(e.kind) IN
       CASE error_code \in {"UnrecognizedClientException",
                            "InvalidSignatureException"}
              -> Exc("AuthenticationError", <<"AWS authentication failed">>)
         [] error_code = "ThrottlingException"
              -> Exc("RateLimitError", <<"Rate limit exceeded">>)
         [] OTHER -> Exc("ProviderError",
                         <<"Bedrock error: ">> \o ErrorMessage(e.kind))
  ELSE IF e.kind \in {"BotoCoreError", "ConnectionError"}
  THEN Exc("ConnectionError", <<"Cannot connect to AWS Bedrock">>)
  ELSE Exc("ProviderError", <<"Unexpected Bedrock error: ">> \o e.msg)

\* the except clauses of BedrockProvider.stream_chat
BedrockExcept(e) ==
  IF e.kind \in ClientErrors
  THEN LET error_code == ErrorCode(e.kind) IN
       CASE error_code \in {"UnrecognizedClientException",
                            "InvalidSignatureException"}
              -> Exc("AuthenticationError", <<"AWS authentication failed">>)
         [] error_code = "ThrottlingException"
              -> Exc("RateLimitError", <<"Rate limit exceeded">>)
         [] error_code \in {"AccessDeniedException", "ResourceNotFoundException"}
              -> Exc("AuthenticationError", <<"Access denied to model">>)
         [] OTHER -> Exc("ProviderError",
                         <<"Bedrock error: ">> \o ErrorMessage(e.kind))
  ELSE IF e.kind \in {"BotoCoreError", "ConnectionError"}
  THEN Exc("ConnectionError", <<"Cannot connect to AWS Bedrock">>)
  ELSE Exc("ProviderError", <<"Unexpected Bedrock error: ">> \o e.msg)

BedrockMapError(exc) == BedrockExcept(TransportExc(exc)).kind

\* except clauses without the re-raise of the provider's own errors
HttpExceptWrapsAll(e) ==
  CASE e.kind = "ConnectError" -> Exc("ConnectionError", <<"Cannot connect">>)
    [] e.kind = "TimeoutException" -> Exc("ConnectionError", <<"timed out">>)
    [] OTHER -> Exc("ProviderError", <<"Unexpected error: ">> \o e.msg)

\* the except clauses of OpenAICompatibleProvider.stream_chat
HttpExcept(e) ==
  CASE e.kind = "ConnectError" -> Exc("ConnectionError", <<"Cannot connect">>)
    [] e.kind = "TimeoutException" -> Exc("ConnectionError", <<"timed out">>)
    [] e.kind \in {"AuthenticationError", "RateLimitError", "ProviderError",
                   "ConnectionError"} -> e
    [] OTHER -> Exc("ProviderError", <<"Unexpected error: ">> \o e.msg)

HttpMapError(exc) == HttpExcept(TransportExc(exc)).kind

\* the status check of OpenAICompatibleProvider.stream_chat: what it raises
HttpStatusRaise(status) ==
  CASE status = 401 -> Exc("AuthenticationError", <<"Authentication failed">>)
    [] status = 429 -> Exc("RateLimitError", <<"Rate limit exceeded">>)
    [] status >= 400 -> Exc("ProviderError",
                            <<"Provider error: HTTP", ToString(status)>>)
    [] OTHER -> NoExc

HttpStatusError(status) == HttpStatusRaise(status).kind

StatusCodes == {200, 204, 302, 401, 429, 400, 500}

(* ---------------------------------------------------------------------- *)
(* One iteration of the adapters' event loops.  The result says which     *)
(* chunks the iteration yields (in order), the new classification map,     *)
(* and how the loop goes on:                                               *)
(*   "next"   read the next event                                          *)
(*   "return" return after the chunks were taken (no further read)         *)
(*   "end"    the wire is exhausted, the generator ends                    *)
(*   "raise"  exc escapes the loop                                         *)
(* ---------------------------------------------------------------------- *)
Step(chunks, types, ctl, exc) ==
  [chunks |-> chunks, types |-> types, ctl |-> ctl, exc |-> exc]

NoTypes == [i \in BlockIndexes |-> "unset"]

\* a demultiplexer that ignores the block classification
DeltaChunkAlwaysContent(text, is_reasoning) == ContentChunk(text)

\* the chunk of a cloud text delta
DeltaChunk(text, is_reasoning) ==
  IF is_reasoning THEN ReasoningChunk(text) ELSE ContentChunk(text)

BedrockOnStopReason == "next"

\* an error event that is logged and skipped
OnErrorEventLogged(types) == Step(<< >>, types, "next", "")

\* the error event: raise ProviderError("Stream error: ...")
OnErrorEvent(types) == Step(<< >>, types, "raise", "ProviderError")

\* a lookup that forgets which block was classified
IsReasoningAnyBlock(types, idx) == \E i \in BlockIndexes : types[i] = "reasoning"

\* is_reasoning = content_block_types.get(content_block_index) == "reasoning"
IsReasoning(types, idx) == types[idx] = "reasoning"

BedrockProcessEvent(e, types) ==
  CASE e.t = "contentBlockStart" ->
         Step(<< >>,
              IF e.kind = "nostart" THEN types
              ELSE [types EXCEPT ![e.idx] =
                      IF e.kind = "thinking" THEN "reasoning" ELSE "text"],
              "next", "")
    [] e.t = "contentBlockDelta" ->
         Step(IF ~e.has THEN << >>
              ELSE << DeltaChunk(e.text, IsReasoning(types, e.idx)) >>,
              types, "next", "")
    [] e.t = "metadata" ->
         IF e.fin THEN Step(<<DoneChunk>>, types, BedrockOnStopReason, "")
                  ELSE Step(<< >>, types, "next", "")
    [] e.t = "messageStop" -> Step(<<DoneChunk>>, types, BedrockOnStopReason, "")
    [] e.t = "error" -> OnErrorEvent(types)
    [] e.t = "raise" -> Step(<< >>, types, "raise", e.exc)
    [] e.t = "eof" -> Step(<< >>, types, "end", "")
    [] OTHER -> Step(<< >>, types, "next", "")

\* a parser that reads on after the end marker
HttpOnDoneMarkerReadsOn == "next"

\* after the chunk of the end marker: return
HttpOnDoneMarker == "return"

\* a parser for which a payload that does not parse is fatal
OnJSONDecodeErrorRaises(types) == Step(<< >>, types, "raise", "JSONDecodeError")

\* except json.JSONDecodeError: log and continue
OnJSONDecodeError(types) == Step(<< >>, types, "next", "")

\* a parser that walks every choice of the object
ChoiceChunksOfAll(e) == (IF ~e.has THEN << >> ELSE (IF e.text # NoText THEN <<ContentChunk(e.text)>> ELSE << >>) \o (IF e.fin THEN <<DoneChunk>> ELSE << >>)) \o (IF e.rest # << >> /\ e.rest[1].content # NoText THEN <<ContentChunk(e.rest[1].content)>> ELSE << >>)

\* the chunks of one JSON object: choices[0] only
ChoiceChunks(e) ==
  IF ~e.has THEN << >>
  ELSE (IF e.text # NoText THEN <<ContentChunk(e.text)>> ELSE << >>)
       \o (IF e.fin THEN <<DoneChunk>> ELSE << >>)

HttpProcessLine(e, types) ==
  IF e.t = "raise" THEN Step(<< >>, types, "raise", e.exc)
  ELSE IF e.t = "eof" THEN Step(<< >>, types, "end", "")
  ELSE
    LET line == Strip(e.line) IN
      IF line = << >> \/ startswith(line, <<":">>)
      THEN Step(<< >>, types, "next", "")
      ELSE IF startswith(line, DataPrefix)
      THEN LET data == Strip(SubSeq(line, Len(DataPrefix) + 1, Len(line))) IN
             IF data = DoneMarker
             THEN Step(<<DoneChunk>>, types, HttpOnDoneMarker, "")
             ELSE IF data = JsonScalar
             THEN Step(<< >>, types, "raise", "AttributeError")
             ELSE IF data # JsonObject
             THEN OnJSONDecodeError(types)
             ELSE Step(ChoiceChunks(e), types, "next", "")
      ELSE Step(<< >>, types, "next", "")

ProcessEvent(provider, e, types) ==
  IF provider = "bedrock" THEN BedrockProcessEvent(e, types)
                          ELSE HttpProcessLine(e, types)

MapError(provider, exc) ==
  IF provider = "bedrock" THEN BedrockMapError(exc) ELSE HttpMapError(exc)

\* the exception that escapes stream_chat when e is raised inside its try
MapExc(provider, e) ==
  IF provider = "bedrock" THEN BedrockExcept(e) ELSE HttpExcept(e)

(* ---------------------------------------------------------------------- *)
(* The provider factory (providers/__init__.py)                            *)
(* ---------------------------------------------------------------------- *)
\* the values of the ProviderType enumeration, in declaration order
ProviderType == <<"bedrock", "openai_compatible">>

NoConfig == ModelConfig("", "", FALSE, FALSE, NoText)

\* an adapter instance: its class and the configuration it holds
Provider(kind, cfg) == [kind |-> kind, config |-> cfg, error |-> NoExc]
\* a call that raised: no instance
Raised(e) == [kind |-> "none", config |-> NoConfig, error |-> e]

\* BedrockProvider.__init__ ; built = FALSE: boto3 cannot build the client
BedrockProvider(cfg, built) ==
  IF built THEN Provider("bedrock", cfg)
           ELSE Raised(Exc("ProviderError", <<"Failed to initialize Bedrock">>))

OpenAICompatibleProvider(cfg) == Provider("openai_compatible", cfg)

create_provider_with_fallback(cfg, built) == IF cfg.provider = ProviderType[1] THEN BedrockProvider(cfg, built) ELSE OpenAICompatibleProvider(cfg)

create_provider(cfg, built) ==
  IF cfg.provider = ProviderType[1] THEN BedrockProvider(cfg, built)
  ELSE IF cfg.provider = ProviderType[2] THEN OpenAICompatibleProvider(cfg)
  ELSE Raised(Exc("ValueError",
                  <<"Unknown provider type: ", cfg.provider,
                    ". Supported types: ">> \o ProviderType))

(* ---------------------------------------------------------------------- *)
(* Message translation of the adapters (_convert_messages)                 *)
(* Bytes are sequences of numbers 0..255, text is a sequence of characters; *)
(* a decoded character is written as the digits of its code point.         *)
(* ---------------------------------------------------------------------- *)
PNGSignature == <<137, 80, 78, 71, 13, 10, 26, 10>>
JPEGMarker   == <<255, 216, 255>>
GIF87a       == <<71, 73, 70, 56, 55, 97>>
GIF89a       == <<71, 73, 70, 56, 57, 97>>
RIFF         == <<82, 73, 70, 70>>
WEBP         == <<87, 69, 66, 80>>

\* s[a:b] of Python, for 0 <= a <= b
Slice(s, a, b) == SubSeq(s, a + 1, IF b < Len(s) THEN b ELSE Len(s))

endswith(s, suffix) ==
  Len(s) >= Len(suffix) /\ SubSeq(s, Len(s) - Len(suffix) + 1, Len(s)) = suffix

\* a sniffer that takes RIFF alone for WEBP
detect_image_format_riff_only(image_data) == IF startswith(image_data, PNGSignature) THEN "png" ELSE IF startswith(image_data, JPEGMarker) THEN "jpeg" ELSE IF startswith(image_data, GIF87a) \/ startswith(image_data, GIF89a) THEN "gif" ELSE IF startswith(image_data, RIFF) THEN "webp" ELSE "png"

detect_image_format(image_data) ==
  IF startswith(image_data, PNGSignature) THEN "png"
  ELSE IF startswith(image_data, JPEGMarker) THEN "jpeg"
  ELSE IF startswith(image_data, GIF87a) \/ startswith(image_data, GIF89a) THEN "gif"
  ELSE IF startswith(image_data, RIFF) /\ Slice(image_data, 8, 12) = WEBP THEN "webp"
  ELSE "png"

\* base64.b64encode: the indexes of the output characters in the base64
\* alphabet, 64 for the padding character
RECURSIVE b64encode(_)
b64encode(b) ==
  IF b = << >> THEN << >>
  ELSE IF Len(b) = 1
  THEN << b[1] \div 4, (b[1] % 4) * 16, 64, 64 >>
  ELSE IF Len(b) = 2
  THEN << b[1] \div 4, (b[1] % 4) * 16 + (b[2] \div 16), (b[2] % 16) * 4, 64 >>
  ELSE << b[1] \div 4, (b[1] % 4) * 16 + (b[2] \div 16),
          (b[2] % 16) * 4 + (b[3] \div 64), b[3] % 64 >>
       \o b64encode(SubSeq(b, 4, Len(b)))

\* f"data:{mime_type};base64,{b64_image}"
DataURL(mime_type, b64_image) ==
  [scheme |-> "data:", mime_type |-> mime_type, encoding |-> ";base64,",
   data |-> b64_image]

\* bytes.decode('utf-8') for one- and two-byte sequences; every other lead
\* byte the inputs draw (a continuation byte, 0xC0, 0xC1, 0xF8..0xFF) is
\* invalid in UTF-8.  ok = FALSE: UnicodeDecodeError.
RECURSIVE decode_utf8(_)
decode_utf8(b) ==
  IF b = << >> THEN [ok |-> TRUE, text |-> << >>]
  ELSE IF b[1] < 128
  THEN LET r == decode_utf8(Tail(b))
       IN [ok |-> r.ok, text |-> <<ToString(b[1])>> \o r.text]
  ELSE IF b[1] \in 194..223 /\ Len(b) >= 2 /\ b[2] \in 128..191
  THEN LET r == decode_utf8(SubSeq(b, 3, Len(b)))
       IN [ok |-> r.ok,
           text |-> <<ToString((b[1] - 192) * 64 + (b[2] - 128))>> \o r.text]
  ELSE [ok |-> FALSE, text |-> << >>]

\* the two shapes of "content" in a payload entry
StringContent(text) == [type |-> "string", text |-> text, parts |-> << >>]
ArrayContent(parts) == [type |-> "array", text |-> NoText, parts |-> parts]

TextPart(text) == [type |-> "text", text |-> text, image_url |-> << >>]
ImagePart(url) == [type |-> "image_url", text |-> NoText, image_url |-> <<url>>]

ImageParts(images) ==
  [i \in 1..Len(images) |->
     ImagePart(DataURL(<<"image/", detect_image_format(images[i])>>,
                       b64encode(images[i])))]

DocumentHeader(filename) == <<"\n\n[Document: ">> \o filename \o <<"]\n">>

\* except Exception: the warning is logged and no part is appended
OnDocumentError(filename) == << >>

\* the parts one document adds
DocumentPart(filename, doc_data) ==
  IF endswith(filename, <<".", "t", "x", "t">>) \/ endswith(filename, <<".", "m", "d">>)
  THEN LET d == decode_utf8(doc_data) IN
         IF d.ok
         THEN << TextPart(DocumentHeader(filename) \o d.text \o <<"\n">>) >>
         ELSE OnDocumentError(filename)
  ELSE << TextPart(DocumentHeader(filename)) >>

RECURSIVE DocumentParts(_)
DocumentParts(documents) ==
  IF documents = << >> THEN << >>
  ELSE DocumentPart(Head(documents)[1], Head(documents)[2])
       \o DocumentParts(Tail(documents))

\* a translation that uses the content-part array for every user message
HttpConvertMessageAlwaysArray(msg) == IF msg.role = "system" THEN [role |-> "system", content |-> StringContent(msg.content)] ELSE [role |-> msg.role, content |-> ArrayContent((IF msg.content # NoText THEN <<TextPart(msg.content)>> ELSE << >>) \o ImageParts(msg.images) \o DocumentParts(msg.documents))]

\* one iteration of the loop of OpenAICompatibleProvider._convert_messages
HttpConvertMessage(msg) ==
  IF msg.role = "system"
  THEN [role |-> "system", content |-> StringContent(msg.content)]
  ELSE IF msg.images # << >> \/ msg.documents # << >>
  THEN [role |-> msg.role,
        content |-> ArrayContent(
          (IF msg.content # NoText THEN <<TextPart(msg.content)>> ELSE << >>)
          \o ImageParts(msg.images)
          \o DocumentParts(msg.documents))]
  ELSE [role |-> msg.role, content |-> StringContent(msg.content)]

HttpConvertMessages(msgs) == [i \in 1..Len(msgs) |-> HttpConvertMessage(msgs[i])]

\* BedrockProvider._convert_messages: always a content array; images are
\* passed as bytes under the format "png", a document as its header
BedrockImagePart(image_data) ==
  [type |-> "image", text |-> NoText, image_url |-> <<[format |-> "png", bytes |-> image_data]>>]

BedrockConvertMessage(msg) ==
  [role |-> msg.role,
   content |-> ArrayContent(
     <<TextPart(msg.content)>>
     \o [i \in 1..Len(msg.images) |-> BedrockImagePart(msg.images[i])]
     \o [i \in 1..Len(msg.documents) |->
           TextPart(<<"[Document: ">> \o msg.documents[i][1] \o <<"]">>)])]

BedrockConvertMessages(msgs) ==
  [i \in 1..Len(msgs) |-> BedrockConvertMessage(msgs[i])]

convert_messages(provider, msgs) ==
  IF provider = "bedrock" THEN BedrockConvertMessages(msgs)
                          ELSE HttpConvertMessages(msgs)

(* ---------------------------------------------------------------------- *)
(* State                                                                   *)
(* ---------------------------------------------------------------------- *)
VARIABLES
  \* ChatService fields
  messages, current_model_key, current_agent_key,
  conversation_id, conversation_title_set,
  \* the storage service: configured or not, and its tables
  storage, db,
  \* the stream_response call in flight (its locals) and the last result
  pc, call, provider, provider_config, messages_to_send, assistant_message,
  assistant_reasoning, yielded, outcome,
  \* calls made and conversations created so far
  nops,
  \* the provider's stream_chat generator
  apc, wire, pending, produced, content_block_types, aexc, amsg, payload,
  \* the frame of the other coroutine of an overlapping pair, suspended
  parked,
  \* history variable: how the current history was built since it was last
  \* empty: one entry per stream_response call that completed without an
  \* error ("content" or "empty" stream), or Tainted after anything else
  okrun

svcVars == <<messages, current_model_key, current_agent_key,
             conversation_id, conversation_title_set, storage, db>>
callVars == <<pc, call, provider, provider_config, messages_to_send,
              assistant_message,
              assistant_reasoning, yielded, outcome, nops>>
adapterVars == <<apc, wire, pending, produced, content_block_types, aexc,
                 amsg, payload>>
vars == <<svcVars, callVars, adapterVars, okrun, parked>>

\* no other coroutine
NoFrame == << >>

(* ---------------------------------------------------------------------- *)
(* Persistence (services/storage.py)                                       *)
(* ---------------------------------------------------------------------- *)
None == << >>
PlaceholderTitle == <<"New Conversation">>

StaleConv == <<"stale">>
NewConvIds == {<<"new", i>> : i \in 1..MaxOps}
ConvIds == {StaleConv} \cup NewConvIds
\* an id a caller may ask for that the store never held
MissingConv == <<"missing">>

PersistedMessage(role, content, reasoning, images, documents) ==
  [role |-> role, content |-> content, reasoning |-> reasoning,
   images |-> images, documents |-> documents]

Conversation(exists, title, model_key, msgs) ==
  [exists |-> exists, title |-> title, model_key |-> model_key, messages |-> msgs]

NoConversation == Conversation(FALSE, NoText, "", << >>)

\* a store written by an earlier session: a conversation whose model was
\* removed from the configuration since
EarlierStore ==
  [id \in ConvIds |->
     IF id = StaleConv
     THEN Conversation(TRUE, <<"u">>, UnknownKey,
            << PersistedMessage("user", <<"u">>, None, << >>, << >>),
               PersistedMessage("assistant", <<"a">>, <<"r">>, << >>, << >>) >>)
     ELSE NoConversation]

EmptyStore == [id \in ConvIds |-> NoConversation]

\* title of a short one-line message: the message itself, or the placeholder
max_length == 50

\* content.split("\n")[0]
RECURSIVE FirstLine(_)
FirstLine(s) ==
  IF s = << >> \/ Head(s) = "\n" THEN << >>
  ELSE << Head(s) >> \o FirstLine(Tail(s))

generate_title_from_message(content) ==
  LET title == RStrip(LStrip(FirstLine(content)))
      cut == IF Len(title) > max_length
             THEN SubSeq(title, 1, max_length - 3) \o <<".", ".", ".">>
             ELSE title
  IN IF cut = NoText THEN PlaceholderTitle ELSE cut

FreshIds(dbv) == {id \in NewConvIds : ~dbv[id].exists}

storage_add_message(dbv, cid, role, content, reasoning, images, documents) ==
  [dbv EXCEPT ![cid].messages =
     Append(@, PersistedMessage(role, content, reasoning, images, documents))]

LoadMessage(pm) == Message(pm.role, pm.content, pm.images, pm.documents)

(* ---------------------------------------------------------------------- *)
(* ChatService.add_message: the new history, tables and title flag         *)
(* ---------------------------------------------------------------------- *)
\* an add_message that inserts the turn at the front of the history
add_message_at_front(msgs, dbv, cid, tset, role, content, images, documents, reasoning) ==
  [messages |-> << Message(role, content, images, documents) >> \o msgs,
   db |-> IF storage /\ cid # None
          THEN storage_add_message(dbv, cid, role, content, reasoning,
                                   images, documents)
          ELSE dbv,
   title_set |-> tset]

add_message(msgs, dbv, cid, tset, role, content, images, documents, reasoning) ==
  LET persist == storage /\ cid # None
      db1 == IF persist
             THEN storage_add_message(dbv, cid, role, content, reasoning,
                                      images, documents)
             ELSE dbv
      retitle == persist /\ role = "user" /\ ~tset
  IN [messages |-> Append(msgs, Message(role, content, images, documents)),
      db |-> IF retitle
             THEN [db1 EXCEPT ![cid].title = generate_title_from_message(content)]
             ELSE db1,
      title_set |-> IF retitle THEN TRUE ELSE tset]

(* ---------------------------------------------------------------------- *)
(* Init: ChatService.__init__                                              *)
(* ---------------------------------------------------------------------- *)
Tainted == <<"tainted">>

NoCall == [user_message |-> NoText, images |-> << >>, documents |-> << >>,
           knowledge |-> << >>, before |-> << >>, db_before |-> EmptyStore]

Init ==
  /\ messages = << >>
  /\ current_model_key = DefaultModel
  /\ current_agent_key = DefaultAgent
  /\ conversation_id = None
  /\ conversation_title_set = FALSE
  /\ storage \in BOOLEAN
  /\ db = IF storage THEN EarlierStore ELSE EmptyStore
  /\ pc = "idle"
  /\ call = NoCall
  /\ provider = "none"
  /\ provider_config = NoConfig
  /\ messages_to_send = << >>
  /\ assistant_message = NoText
  /\ assistant_reasoning = NoText
  /\ yielded = << >>
  /\ outcome = "none"
  /\ nops = 0
  /\ apc = "none"
  /\ wire = << >>
  /\ pending = << >>
  /\ produced = << >>
  /\ content_block_types = NoTypes
  /\ aexc = ""
  /\ amsg = NoText
  /\ payload = << >>
  /\ parked = NoFrame
  /\ okrun = << >>

(* ---------------------------------------------------------------------- *)
(* Conversation operations                                                 *)
(* ---------------------------------------------------------------------- *)
\* the body of new_conversation, also run by clear_history
NewConversationEffect ==
  /\ messages' = << >>
  /\ IF storage /\ FreshIds(db) # {}
     THEN LET id == CHOOSE x \in FreshIds(db) :
                      \A y \in FreshIds(db) : x[2] <= y[2]
          IN /\ db' = [db EXCEPT ![id] =
                        Conversation(TRUE, PlaceholderTitle, current_model_key, << >>)]
             /\ conversation_id' = id
             /\ nops' = nops + 1
     ELSE /\ conversation_id' = None
          /\ db' = db
          /\ nops' = nops
  /\ conversation_title_set' = FALSE
  /\ okrun' = << >>

new_conversation ==
  /\ storage => FreshIds(db) # {}
  /\ NewConversationEffect
  /\ outcome' = "none"
  /\ UNCHANGED <<current_model_key, current_agent_key, storage>>

\* a clear that resets the conversation and keeps the turns
clear_history_keeps_turns ==
  /\ storage => FreshIds(db) # {}
  /\ messages' = messages
  /\ conversation_id' = None
  /\ conversation_title_set' = FALSE
  /\ outcome' = "none"
  /\ UNCHANGED <<current_model_key, current_agent_key, storage, db, nops, okrun>>

clear_history ==
  /\ storage => FreshIds(db) # {}
  /\ NewConversationEffect
  /\ outcome' = "none"
  /\ UNCHANGED <<current_model_key, current_agent_key, storage>>

LoadedModelKey(conv) == conv.model_key

load_conversation(id) ==
  IF ~storage \/ id \notin ConvIds \/ ~db[id].exists
  THEN outcome' = "False" /\ UNCHANGED <<svcVars, okrun>>
  ELSE /\ outcome' = "True"
       /\ okrun' = Tainted
       /\ messages' = [i \in 1..Len(db[id].messages) |-> LoadMessage(db[id].messages[i])]
       /\ conversation_id' = id
       /\ conversation_title_set' = TRUE
       /\ current_model_key' = LoadedModelKey(db[id])
       /\ UNCHANGED <<current_agent_key, storage, db>>

\* a set_model that does not validate the key
set_model_unchecked(k) ==
  /\ outcome' = "none"
  /\ current_model_key' = k
  /\ UNCHANGED <<messages, current_agent_key, conversation_id,
                 conversation_title_set, storage, db, okrun>>

set_model(k) ==
  /\ IF k \notin ModelKeys
     THEN outcome' = "ValueError" /\ UNCHANGED current_model_key
     ELSE outcome' = "none" /\ current_model_key' = k
  /\ UNCHANGED <<messages, current_agent_key, conversation_id,
                 conversation_title_set, storage, db, okrun>>

set_agent(k) ==
  /\ IF k \notin AgentKeys
     THEN outcome' = "ValueError" /\ UNCHANGED current_agent_key
     ELSE outcome' = "none" /\ current_agent_key' = k
  /\ UNCHANGED <<messages, current_model_key, conversation_id,
                 conversation_title_set, storage, db, okrun>>

(* ---------------------------------------------------------------------- *)
(* ChatService.stream_response                                             *)
(* ---------------------------------------------------------------------- *)
UserTexts == {<<"u">>}
\* one image (a PNG signature and a byte); one document f.txt holding "d"
PngImage == PNGSignature \o <<0>>
TxtDocument == << <<"f", ".", "t", "x", "t">>, <<100>> >>
ImageInputs == {<< >>, <<PngImage>>}
DocumentInputs == {<< >>, <<TxtDocument>>}

\* a gate that forgets the documents check
GateFailureImagesOnly(cfg, images, documents) ==
  IF images # << >> /\ ~supports_feature(cfg, "images") THEN "images" ELSE "none"

\* which capability the gate finds missing: images is tested first
GateFailure(cfg, images, documents) ==
  IF images # << >> /\ ~supports_feature(cfg, "images") THEN "images"
  ELSE IF documents # << >> /\ ~supports_feature(cfg, "documents") THEN "documents"
  ELSE "none"

\* The knowledge service as a call sees it: one entry per source, highest
\* confidence first, with the verdict of check_relevance for the user message
\* and the content that fetch_knowledge returns (NoText: the fetch failed).
Source(name, is_relevant, content) ==
  [name |-> name, is_relevant |-> is_relevant, content |-> content]

KNone == [i \in DOMAIN DeclaredSources |-> Source(DeclaredSources[i], FALSE, <<"k">>)]
KFour ==
  [i \in DOMAIN DeclaredSources |-> Source(DeclaredSources[i], TRUE,
                         IF i = 2 THEN NoText ELSE <<"k", DeclaredSources[i]>>)]
KFailed ==
  [i \in DOMAIN DeclaredSources |-> Source(DeclaredSources[i], i = 1, NoText)]

KnowledgeInputs == {KNone, KFour, KFailed}
SvcKnowledgeInputs == {KFour}

\* what the service may hold when the agent of key k is active: every case
\* for an agent whose calls consult it, one case for the others
KnowledgeInputsOf(k) ==
  IF /\ ConfigAgents[k].instructions # NoText
     /\ ConfigAgents[k].inject_knowledge_automatically
     /\ ConfigAgents[k].knowledge_sources # << >>
  THEN KnowledgeInputs ELSE SvcKnowledgeInputs

\* the attachments of a call: (images, documents)
AttachmentInputs == ImageInputs \X DocumentInputs
SvcAttachmentInputs == AttachmentInputs \ {<< <<PngImage>>, <<TxtDocument>> >>}

max_sources == 3

get_relevant_sources(knowledge, agent) ==
  SelectSeq(knowledge,
            LAMBDA s : s.is_relevant
                       /\ \E i \in DOMAIN agent.knowledge_sources :
                            agent.knowledge_sources[i] = s.name)

\* the first max relevant sources, those whose fetch returned content
fetch_relevant_knowledge_uncapped(knowledge, agent, max) ==
  SelectSeq(get_relevant_sources(knowledge, agent),
            LAMBDA s : s.content # NoText)

fetch_relevant_knowledge(knowledge, agent, max) ==
  LET relevant_sources == get_relevant_sources(knowledge, agent)
      sources_to_fetch ==
        SubSeq(relevant_sources, 1,
               IF Len(relevant_sources) < max THEN Len(relevant_sources)
               ELSE max)
  IN SelectSeq(sources_to_fetch, LAMBDA s : s.content # NoText)

KnowledgeHeader == <<"\n\n## Relevant Knowledge\n\n">>
Reference(s) == <<"### Reference: ", s.name, "\n">> \o s.content

\* "\n\n".join of the references
RECURSIVE JoinReferences(_)
JoinReferences(parts) ==
  IF parts = << >> THEN NoText
  ELSE IF Len(parts) = 1 THEN Reference(parts[1])
  ELSE Reference(parts[1]) \o <<"\n\n">> \o JoinReferences(Tail(parts))

build_messages_with_agent(agent, knowledge, history) ==
  IF agent.instructions # NoText
  THEN LET knowledge_parts ==
             IF agent.inject_knowledge_automatically
                /\ agent.knowledge_sources # << >>
             THEN fetch_relevant_knowledge(knowledge, agent, max_sources)
             ELSE << >>
           system_content ==
             IF knowledge_parts # << >>
             THEN agent.instructions \o KnowledgeHeader
                  \o JoinReferences(knowledge_parts)
             ELSE agent.instructions
       IN << Message("system", system_content, << >>, << >>) >> \o history
  ELSE history

ResetAdapter(a) ==
  /\ apc' = a
  /\ wire' = << >>
  /\ pending' = << >>
  /\ produced' = << >>
  /\ content_block_types' = NoTypes
  /\ aexc' = ""
  /\ amsg' = NoText
  /\ payload' = << >>
  /\ UNCHANGED parked

\* The first resumption of the generator: model lookup, provider
\* construction, gating, the user turn, the outbound list and the creation of
\* the provider's generator.  built = FALSE: the cloud client cannot be built.
StreamStart(text, images, documents, knowledge, built) ==
  /\ pc = "idle"
  /\ nops' = nops + 1
  /\ call' = [user_message |-> text, images |-> images, documents |-> documents,
              knowledge |-> knowledge, before |-> messages, db_before |-> db]
  /\ assistant_message' = NoText
  /\ assistant_reasoning' = NoText
  /\ yielded' = << >>
  /\ IF current_model_key \notin ModelKeys
     THEN /\ outcome' = "KeyError"
          /\ provider' = "none"
          /\ provider_config' = NoConfig
          /\ ResetAdapter("none")
          /\ okrun' = Tainted
          /\ UNCHANGED <<pc, messages_to_send, svcVars>>
     ELSE
       LET cfg == ConfigModels[current_model_key]
           p == create_provider(cfg, built)
       IN
       IF p.error # NoExc
       THEN /\ outcome' = p.error.kind
            /\ provider' = p.kind
            /\ provider_config' = p.config
            /\ ResetAdapter("none")
            /\ okrun' = Tainted
            /\ UNCHANGED <<pc, messages_to_send, svcVars>>
       ELSE IF GateFailure(cfg, images, documents) # "none"
       THEN /\ outcome' = "CapabilityError"
            /\ provider' = p.kind
            /\ provider_config' = p.config
            /\ ResetAdapter("none")
            /\ okrun' = Tainted
            /\ UNCHANGED <<pc, messages_to_send, svcVars>>
       ELSE
         LET r == add_message(messages, db, conversation_id,
                              conversation_title_set, "user", text,
                              images, documents, None)
         IN /\ messages' = r.messages
            /\ db' = r.db
            /\ conversation_title_set' = r.title_set
            /\ messages_to_send' =
                 build_messages_with_agent(ConfigAgents[current_agent_key],
                                           knowledge, r.messages)
            /\ provider' = p.kind
            /\ provider_config' = p.config
            /\ ResetAdapter("new")
            /\ pc' = "streaming"
            /\ outcome' = "pending"
            /\ UNCHANGED <<current_model_key, current_agent_key,
                           conversation_id, storage, okrun>>

(* ---------------------------------------------------------------------- *)
(* The provider's stream_chat generator                                    *)
(*   apc: "none" no generator, "new" created and not yet resumed,          *)
(*        "reading" inside the event loop, "returning" suspended at the    *)
(*        yield before a return, "ended" exhausted, "raised" aexc escaped, *)
(*        "closed" abandoned by its consumer                               *)
(* ---------------------------------------------------------------------- *)
Conn(exc, status, stream) == [exc |-> exc, status |-> status, stream |-> stream]

BedrockConnInputs ==
  {Conn("", 200, TRUE), Conn("", 200, FALSE)}
  \cup {Conn(x, 0, FALSE) : x \in BedrockExceptions}

HttpConnInputs ==
  {Conn("", st, TRUE) : st \in StatusCodes}
  \cup {Conn(x, 0, FALSE) : x \in HttpExceptions}

SvcBedrockConnInputs == {Conn("", 200, TRUE), Conn("BotoCoreError", 0, FALSE)}
SvcHttpConnInputs == {Conn("", 200, TRUE), Conn("", 401, TRUE)}

\* the request: converse_stream / client.stream and the status check
AdapterConnect(c) ==
  /\ apc = "new"
  /\ LET raised == IF c.exc # "" THEN TransportExc(c.exc)
                   ELSE IF provider = "bedrock" THEN NoExc
                   ELSE HttpStatusRaise(c.status)
         err == IF raised = NoExc THEN NoExc ELSE MapExc(provider, raised)
     IN /\ apc' = IF err # NoExc THEN "raised"
                  ELSE IF provider = "bedrock" /\ ~c.stream THEN "ended"
                  ELSE "reading"
        /\ aexc' = err.kind
        /\ amsg' = err.msg
  /\ payload' = convert_messages(provider, messages_to_send)
  /\ UNCHANGED parked
  /\ UNCHANGED <<wire, pending, produced, content_block_types>>

CtlState(ctl) ==
  CASE ctl = "next" -> "reading"
    [] ctl = "return" -> "returning"
    [] ctl = "end" -> "ended"
    [] OTHER -> "raised"

\* the generator may read only when the chunks of the event before were taken
MayRead == apc = "reading" /\ pending = << >>

\* one iteration of the event loop, up to its first yield
AdapterRead(e) ==
  /\ MayRead
  /\ LET r == ProcessEvent(provider, e, content_block_types)
     IN /\ wire' = IF e.t = "eof" THEN wire ELSE Append(wire, e)
        /\ pending' = r.chunks
        /\ content_block_types' = r.types
        /\ apc' = CtlState(r.ctl)
        /\ aexc' = IF r.ctl = "raise"
                   THEN MapExc(provider, TransportExc(r.exc)).kind ELSE ""
        /\ amsg' = IF r.ctl = "raise"
                   THEN MapExc(provider, TransportExc(r.exc)).msg ELSE NoText
  /\ UNCHANGED <<produced, payload, parked>>

\* the generator hands the next chunk to its consumer
AdapterYield ==
  /\ pending # << >>
  /\ produced' = Append(produced, Head(pending))
  /\ pending' = Tail(pending)
  /\ UNCHANGED <<apc, wire, content_block_types, aexc, amsg, payload, parked>>

\* resumed after the chunk that precedes a return
AdapterReturn ==
  /\ apc = "returning"
  /\ pending = << >>
  /\ apc' = "ended"
  /\ UNCHANGED <<wire, pending, produced, content_block_types, aexc, amsg,
                 payload,
                 parked>>

(* ---------------------------------------------------------------------- *)
(* stream_response driving the generator                                   *)
(* ---------------------------------------------------------------------- *)
\* an accumulator that assigns instead of appending
AccumulateOverwrite(acc, piece) == IF piece # NoText THEN piece ELSE acc

Accumulate(acc, piece) == IF piece # NoText THEN acc \o piece ELSE acc

\* an assistant turn that is recorded only when there was reasoning
AssistantTurnIfReasoning(content, reasoning) ==
  IF reasoning # NoText
  THEN << [content |-> content, reasoning |-> reasoning] >>
  ELSE << >>

\* what the assistant turn records, or << >> when none is recorded
AssistantTurn(content, reasoning) ==
  IF content # NoText
  THEN << [content |-> content,
           reasoning |-> IF reasoning # NoText THEN reasoning ELSE None] >>
  ELSE << >>

\* an except branch that keeps the partial response
FailedTurnKeepsPartial(content, reasoning) ==
  IF content # NoText THEN << [content |-> content, reasoning |-> None] >> ELSE << >>

\* the except branch: a failed response is not added to the history
FailedTurn(content, reasoning) == << >>

\* a service that rebuilds the chunk from its content
ForwardContentOnly(chunk) == StreamChunk(chunk.content, NoText, FALSE, chunk.done)

\* the chunk stream_response yields for a chunk of the provider
Forward(chunk) == chunk

\* what stream_response does with the generator's answer to one resumption:
\* the loop ended (apc' = "ended"), an exception escaped (apc' = "raised"),
\* or the generator is suspended again
ServiceReact ==
  IF apc' \in {"ended", "raised"}
  THEN LET t == IF apc' = "ended"
                THEN AssistantTurn(assistant_message, assistant_reasoning)
                ELSE FailedTurn(assistant_message, assistant_reasoning)
           r == IF t # << >>
                THEN add_message(messages, db, conversation_id,
                                 conversation_title_set, "assistant",
                                 t[1].content, << >>, << >>, t[1].reasoning)
                ELSE [messages |-> messages, db |-> db,
                      title_set |-> conversation_title_set]
       IN /\ messages' = r.messages
          /\ db' = r.db
          /\ conversation_title_set' = r.title_set
          /\ outcome' = IF apc' = "ended" THEN "ok" ELSE aexc'
          /\ pc' = "idle"
          /\ okrun' = IF apc' = "raised" \/ okrun = Tainted THEN Tainted
                      ELSE Append(okrun,
                             IF ConcatField(yielded, "content") # NoText
                             THEN "content" ELSE "empty")
  ELSE UNCHANGED <<messages, db, conversation_title_set, outcome, pc, okrun>>

StreamFrame ==
  UNCHANGED <<current_model_key, current_agent_key, conversation_id, storage,
              call, provider, provider_config, messages_to_send, nops>>

StreamConnect(c) ==
  /\ pc = "streaming"
  /\ AdapterConnect(c)
  /\ ServiceReact
  /\ StreamFrame
  /\ UNCHANGED <<assistant_message, assistant_reasoning, yielded>>

StreamRead(e, max) ==
  /\ pc = "streaming"
  /\ Len(wire) < max \/ e.t \in {"eof", "raise"}
  /\ AdapterRead(e)
  /\ ServiceReact
  /\ StreamFrame
  /\ UNCHANGED <<assistant_message, assistant_reasoning, yielded>>

StreamYield ==
  /\ pc = "streaming"
  /\ AdapterYield
  /\ assistant_message' = Accumulate(assistant_message, Head(pending).content)
  /\ assistant_reasoning' = Accumulate(assistant_reasoning, Head(pending).reasoning)
  /\ yielded' = Append(yielded, Forward(Head(pending)))
  /\ StreamFrame
  /\ UNCHANGED <<messages, db, conversation_title_set, outcome, pc, okrun>>

StreamReturn ==
  /\ pc = "streaming"
  /\ AdapterReturn
  /\ ServiceReact
  /\ StreamFrame
  /\ UNCHANGED <<assistant_message, assistant_reasoning, yielded>>

\* a service that commits what it has accumulated when it is closed
AbandonedTurnCommitsPartial(content, reasoning) == IF content # NoText THEN << [content |-> content, reasoning |-> reasoning] >> ELSE << >>

\* GeneratorExit and CancelledError are not Exception: they leave the try
\* through neither the append after the loop nor the except branch
AbandonedTurn(content, reasoning) == << >>

\* The caller stops consuming: the suspended generator is closed (aclose(),
\* or its finalizer) or the task awaiting it is cancelled.  The exception is
\* raised at the suspension point inside the try of stream_response.
aclose ==
  /\ pc = "streaming"
  /\ LET t == AbandonedTurn(assistant_message, assistant_reasoning)
         r == IF t # << >>
              THEN add_message(messages, db, conversation_id,
                               conversation_title_set, "assistant",
                               t[1].content, << >>, << >>, t[1].reasoning)
              ELSE [messages |-> messages, db |-> db,
                    title_set |-> conversation_title_set]
     IN /\ messages' = r.messages
        /\ db' = r.db
        /\ conversation_title_set' = r.title_set
  /\ pc' = "idle"
  /\ outcome' = "GeneratorExit"
  /\ apc' = "closed"
  /\ okrun' = Tainted
  /\ StreamFrame
  /\ UNCHANGED <<assistant_message, assistant_reasoning, yielded, wire,
                 pending, produced, content_block_types, aexc, amsg, payload,
                 parked>>

(* ---------------------------------------------------------------------- *)
(* Specification of the service: operations are called one after another   *)
(* ---------------------------------------------------------------------- *)
SvcEvents ==
  (IF provider = "bedrock" THEN SvcBedrockEvents ELSE SvcHttpEvents)
  \cup {EndOfStream}

SvcConnInputs ==
  IF provider = "bedrock" THEN SvcBedrockConnInputs ELSE SvcHttpConnInputs

Idle == pc = "idle"

\* the locals of a finished call are gone when the next operation runs
NoStream ==
  /\ pc' = "idle"
  /\ call' = NoCall
  /\ provider' = "none"
  /\ provider_config' = NoConfig
  /\ messages_to_send' = << >>
  /\ assistant_message' = NoText
  /\ assistant_reasoning' = NoText
  /\ yielded' = << >>
  /\ ResetAdapter("none")

Next ==
  \/ \E k \in KeyInputs : Idle /\ set_model(k) /\ NoStream /\ UNCHANGED nops
  \/ \E k \in AgentInputs : Idle /\ set_agent(k) /\ NoStream /\ UNCHANGED nops
  \/ Idle /\ (storage => nops < MaxOps) /\ new_conversation /\ NoStream
  \/ Idle /\ (storage => nops < MaxOps) /\ clear_history /\ NoStream
  \/ \E id \in ConvIds \cup {MissingConv} :
       Idle /\ load_conversation(id) /\ NoStream /\ UNCHANGED nops
  \/ \E text \in UserTexts, att \in SvcAttachmentInputs,
        knowledge \in SvcKnowledgeInputs, built \in BOOLEAN :
       nops < MaxOps /\ StreamStart(text, att[1], att[2], knowledge, built)
  \/ \E c \in SvcConnInputs : StreamConnect(c)
  \/ \E e \in SvcEvents : StreamRead(e, MaxWire)
  \/ StreamYield
  \/ StreamReturn
  \/ aclose

Spec == Init /\ [][Next]_vars

(* ---------------------------------------------------------------------- *)
(* Specification of one stream_response call, with longer streams          *)
(* ---------------------------------------------------------------------- *)
CallEvents ==
  (IF provider = "bedrock" THEN CallBedrockEvents ELSE CallHttpEvents)
  \cup {EndOfStream}

\* the service after __init__ and some new_conversation or load_conversation,
\* set_model and set_agent
InitCall ==
  /\ current_model_key \in ModelKeys
  /\ current_agent_key \in AgentKeys
  /\ storage \in BOOLEAN
  /\ \/ /\ conversation_id = None
        /\ db = IF storage THEN EarlierStore ELSE EmptyStore
        /\ messages = << >>
        /\ conversation_title_set = FALSE
     \/ /\ storage
        /\ conversation_id = <<"new", 1>>
        /\ db = [EarlierStore EXCEPT ![<<"new", 1>>] =
                   Conversation(TRUE, PlaceholderTitle, current_model_key, << >>)]
        /\ messages = << >>
        /\ conversation_title_set = FALSE
     \/ /\ storage
        /\ conversation_id = StaleConv
        /\ db = EarlierStore
        /\ messages = [i \in 1..Len(EarlierStore[StaleConv].messages) |->
                         LoadMessage(EarlierStore[StaleConv].messages[i])]
        /\ conversation_title_set = TRUE
  /\ pc = "idle"
  /\ call = NoCall
  /\ provider = "none"
  /\ provider_config = NoConfig
  /\ messages_to_send = << >>
  /\ assistant_message = NoText
  /\ assistant_reasoning = NoText
  /\ yielded = << >>
  /\ outcome = "none"
  /\ nops = 0
  /\ apc = "none"
  /\ wire = << >>
  /\ pending = << >>
  /\ produced = << >>
  /\ content_block_types = NoTypes
  /\ aexc = ""
  /\ amsg = NoText
  /\ payload = << >>
  /\ parked = NoFrame
  /\ okrun = IF messages = << >> THEN << >> ELSE Tainted

NextCall ==
  \/ \E text \in UserTexts, att \in AttachmentInputs,
        knowledge \in KnowledgeInputsOf(current_agent_key),
        built \in BOOLEAN :
       nops = 0 /\ StreamStart(text, att[1], att[2], knowledge, built)
  \/ \E c \in SvcConnInputs : StreamConnect(c)
  \/ \E e \in CallEvents : StreamRead(e, MaxWireC)
  \/ StreamYield
  \/ StreamReturn
  \/ aclose

SpecCall == InitCall /\ [][NextCall]_vars

(* ---------------------------------------------------------------------- *)
(* Specification of one stream_chat call on either adapter, consumed       *)
(* directly, over the full event alphabets                                 *)
(* ---------------------------------------------------------------------- *)
AdapterEvents ==
  (IF provider = "bedrock"
   THEN BedrockEvents \cup {Raise(x) : x \in BedrockExceptions}
   ELSE HttpEvents \cup {Raise(x) : x \in HttpExceptions})
  \cup {EndOfStream}

AdapterConnInputs ==
  IF provider = "bedrock" THEN BedrockConnInputs ELSE HttpConnInputs

InitAdapter ==
  /\ messages = << >>
  /\ current_model_key = DefaultModel
  /\ current_agent_key = DefaultAgent
  /\ conversation_id = None
  /\ conversation_title_set = FALSE
  /\ storage = FALSE
  /\ db = EmptyStore
  /\ pc = "idle"
  /\ call = NoCall
  /\ provider = "none"
  /\ provider_config = NoConfig
  /\ messages_to_send = << >>
  /\ assistant_message = NoText
  /\ assistant_reasoning = NoText
  /\ yielded = << >>
  /\ outcome = "none"
  /\ nops = 0
  /\ apc = "none"
  /\ wire = << >>
  /\ pending = << >>
  /\ produced = << >>
  /\ content_block_types = NoTypes
  /\ aexc = ""
  /\ amsg = NoText
  /\ payload = << >>
  /\ parked = NoFrame
  /\ okrun = << >>

\* a configuration whose provider tag is not a ProviderType value
InvalidConfig == ModelConfig("invalid_type", "Test", FALSE, FALSE, <<"t">>)
FactoryConfigs ==
  {ConfigModels[DefaultModel], ConfigModels["claude"], InvalidConfig}

\* p = create_provider(cfg), called before any stream is opened
AdapterCreate(cfg, built) ==
  /\ apc = "none"
  /\ LET p == create_provider(cfg, built)
     IN /\ provider' = p.kind
        /\ provider_config' = p.config
        /\ aexc' = p.error.kind
        /\ amsg' = p.error.msg
  /\ UNCHANGED <<svcVars, pc, call, messages_to_send, assistant_message,
                 assistant_reasoning, yielded, outcome, nops, okrun,
                 apc, wire, pending, produced, content_block_types, payload,
                 parked>>

\* p.stream_chat(...): the generator object is created, nothing runs yet
AdapterCall ==
  /\ apc = "none"
  /\ provider # "none"
  /\ ResetAdapter("new")
  /\ UNCHANGED <<svcVars, callVars, okrun>>

Consumer == UNCHANGED <<svcVars, callVars, okrun>>

NextAdapter ==
  \/ \E cfg \in FactoryConfigs, built \in BOOLEAN : AdapterCreate(cfg, built)
  \/ AdapterCall
  \/ \E c \in AdapterConnInputs : AdapterConnect(c) /\ Consumer
  \/ \E e \in AdapterEvents :
       /\ Len(wire) < MaxWireA \/ e.t \in {"eof", "raise"}
       /\ AdapterRead(e)
       /\ Consumer
  \/ AdapterYield /\ Consumer
  \/ AdapterReturn /\ Consumer

SpecAdapter == InitAdapter /\ [][NextAdapter]_vars

(* ---------------------------------------------------------------------- *)
(* Two coroutines on one event loop: the running one holds the variables,  *)
(* the other one is parked and resumes at a suspension point               *)
(* ---------------------------------------------------------------------- *)
\* the locals of the running coroutine
Frame ==
  [pc |-> pc, call |-> call, provider |-> provider,
   provider_config |-> provider_config, messages_to_send |-> messages_to_send,
   assistant_message |-> assistant_message,
   assistant_reasoning |-> assistant_reasoning, yielded |-> yielded,
   outcome |-> outcome, apc |-> apc, wire |-> wire, pending |-> pending,
   produced |-> produced, content_block_types |-> content_block_types,
   aexc |-> aexc, amsg |-> amsg, payload |-> payload]

\* a classification map kept on the adapter instance
ProcessStreamLocalOnInstance(own, current) == current

\* content_block_types = {} in _process_stream: a local, every call resumes
\* with its own
ProcessStreamLocal(own, current) == own

\* accumulators kept on the service
StreamResponseLocalOnService(own, current) == current

\* assistant_message = "" and assistant_reasoning = "" in stream_response:
\* locals, every call resumes with its own
StreamResponseLocal(own, current) == own

\* the running coroutine waits for the network (the request or the next
\* event or line), has not started, or is over
AtSuspension == pending = << >> /\ apc # "returning"

\* the event loop resumes the other coroutine
Resume ==
  /\ parked # NoFrame
  /\ AtSuspension
  /\ parked' = Frame
  /\ pc' = parked.pc
  /\ call' = parked.call
  /\ provider' = parked.provider
  /\ provider_config' = parked.provider_config
  /\ messages_to_send' = parked.messages_to_send
  /\ assistant_message' =
       StreamResponseLocal(parked.assistant_message, assistant_message)
  /\ assistant_reasoning' =
       StreamResponseLocal(parked.assistant_reasoning, assistant_reasoning)
  /\ yielded' = parked.yielded
  /\ outcome' = parked.outcome
  /\ apc' = parked.apc
  /\ wire' = parked.wire
  /\ pending' = parked.pending
  /\ produced' = parked.produced
  /\ content_block_types' =
       ProcessStreamLocal(parked.content_block_types, content_block_types)
  /\ aexc' = parked.aexc
  /\ amsg' = parked.amsg
  /\ payload' = parked.payload
  /\ UNCHANGED <<svcVars, nops, okrun>>

(* ---------------------------------------------------------------------- *)
(* Specification of two stream_chat calls on one cloud adapter instance    *)
(* ---------------------------------------------------------------------- *)
\* wire events per call
MaxWireT == 2

TwoCallsEvents ==
     {BStart(i, k) : i \in BlockIndexes, k \in {"thinking", "text"}}
  \cup {BDelta(i, TRUE, <<"a">>) : i \in BlockIndexes}
  \cup {EndOfStream}

\* p = BedrockProvider(cfg); g1 = p.stream_chat(...); g2 = p.stream_chat(...)
InitTwoCalls ==
  /\ messages = << >>
  /\ current_model_key = "claude"
  /\ current_agent_key = DefaultAgent
  /\ conversation_id = None
  /\ conversation_title_set = FALSE
  /\ storage = FALSE
  /\ db = EmptyStore
  /\ pc = "idle"
  /\ call = NoCall
  /\ provider = "bedrock"
  /\ provider_config = ConfigModels["claude"]
  /\ messages_to_send = << >>
  /\ assistant_message = NoText
  /\ assistant_reasoning = NoText
  /\ yielded = << >>
  /\ outcome = "none"
  /\ nops = 0
  /\ apc = "new"
  /\ wire = << >>
  /\ pending = << >>
  /\ produced = << >>
  /\ content_block_types = NoTypes
  /\ aexc = ""
  /\ amsg = NoText
  /\ payload = << >>
  /\ parked = Frame
  /\ okrun = << >>

NextTwoCalls ==
  \/ AdapterConnect(Conn("", 200, TRUE)) /\ Consumer
  \/ \E e \in TwoCallsEvents :
       /\ Len(wire) < MaxWireT \/ e.t = "eof"
       /\ AdapterRead(e)
       /\ Consumer
  \/ AdapterYield /\ Consumer
  \/ Resume

SpecTwoCalls == InitTwoCalls /\ [][NextTwoCalls]_vars

(* ---------------------------------------------------------------------- *)
(* Specification of two overlapping stream_response calls on one service   *)
(* ---------------------------------------------------------------------- *)
\* wire events per overlapping call
MaxWireO == 2

OverlapEvents ==
  (IF provider = "bedrock"
   THEN {BStart(0, "thinking"), BDelta(0, TRUE, <<"a">>),
         BDelta(0, TRUE, <<"b">>)}
   ELSE {LJson(TRUE, <<"a">>, FALSE), LJson(TRUE, <<"b">>, FALSE), LDone})
  \cup {EndOfStream, Raise("ConnectError")}

\* the service after __init__ and possibly new_conversation; two tasks are
\* about to call stream_response
InitOverlap ==
  /\ messages = << >>
  /\ current_model_key \in {DefaultModel, "claude"}
  /\ current_agent_key = DefaultAgent
  /\ storage \in BOOLEAN
  /\ \/ /\ conversation_id = None
        /\ db = EmptyStore
     \/ /\ storage
        /\ conversation_id = <<"new", 1>>
        /\ db = [EmptyStore EXCEPT ![<<"new", 1>>] =
                   Conversation(TRUE, PlaceholderTitle, current_model_key, << >>)]
  /\ conversation_title_set = FALSE
  /\ pc = "idle"
  /\ call = NoCall
  /\ provider = "none"
  /\ provider_config = NoConfig
  /\ messages_to_send = << >>
  /\ assistant_message = NoText
  /\ assistant_reasoning = NoText
  /\ yielded = << >>
  /\ outcome = "none"
  /\ nops = 0
  /\ apc = "none"
  /\ wire = << >>
  /\ pending = << >>
  /\ produced = << >>
  /\ content_block_types = NoTypes
  /\ aexc = ""
  /\ amsg = NoText
  /\ payload = << >>
  /\ parked = Frame
  /\ okrun = << >>

NextOverlap ==
  \/ \E text \in UserTexts :
       /\ call = NoCall
       /\ StreamStart(text, << >>, << >>, KFour, TRUE)
  \/ StreamConnect(Conn("", 200, TRUE))
  \/ \E e \in OverlapEvents : StreamRead(e, MaxWireO)
  \/ StreamYield
  \/ StreamReturn
  \/ Resume

SpecOverlap == InitOverlap /\ [][NextOverlap]_vars

(* ---------------------------------------------------------------------- *)
(* Specification of one stream_response call with conversation operations  *)
(* called while it is in flight                                            *)
(* ---------------------------------------------------------------------- *)
MidStreamEvents == {LJson(TRUE, <<"a">>, FALSE), LDone, EndOfStream}

\* an operation called while the stream_response generator waits for the
\* network: the locals of the call are as they were when it resumes
InFlight ==
  /\ pc = "streaming"
  /\ AtSuspension
  /\ UNCHANGED <<pc, call, provider, provider_config, messages_to_send,
                 assistant_message, assistant_reasoning, yielded,
                 adapterVars, parked>>

\* the service after __init__ and possibly new_conversation or
\* load_conversation, on the local model
InitMidStream ==
  /\ current_model_key = DefaultModel
  /\ current_agent_key = DefaultAgent
  /\ storage \in BOOLEAN
  /\ \/ /\ conversation_id = None
        /\ db = IF storage THEN EarlierStore ELSE EmptyStore
        /\ messages = << >>
        /\ conversation_title_set = FALSE
     \/ /\ storage
        /\ conversation_id = <<"new", 1>>
        /\ db = [EarlierStore EXCEPT ![<<"new", 1>>] =
                   Conversation(TRUE, PlaceholderTitle, current_model_key, << >>)]
        /\ messages = << >>
        /\ conversation_title_set = FALSE
     \/ /\ storage
        /\ conversation_id = StaleConv
        /\ db = EarlierStore
        /\ messages = [i \in 1..Len(EarlierStore[StaleConv].messages) |->
                         LoadMessage(EarlierStore[StaleConv].messages[i])]
        /\ conversation_title_set = TRUE
  /\ pc = "idle"
  /\ call = NoCall
  /\ provider = "none"
  /\ provider_config = NoConfig
  /\ messages_to_send = << >>
  /\ assistant_message = NoText
  /\ assistant_reasoning = NoText
  /\ yielded = << >>
  /\ outcome = "none"
  /\ nops = 0
  /\ apc = "none"
  /\ wire = << >>
  /\ pending = << >>
  /\ produced = << >>
  /\ content_block_types = NoTypes
  /\ aexc = ""
  /\ amsg = NoText
  /\ payload = << >>
  /\ parked = NoFrame
  /\ okrun = IF messages = << >> THEN << >> ELSE Tainted

NextMidStream ==
  \/ \E text \in UserTexts :
       /\ call = NoCall
       /\ StreamStart(text, << >>, << >>, KFour, TRUE)
  \/ StreamConnect(Conn("", 200, TRUE))
  \/ \E e \in MidStreamEvents : StreamRead(e, MaxWireO)
  \/ StreamYield
  \/ StreamReturn
  \/ InFlight /\ (storage => nops < MaxOps) /\ new_conversation
  \/ InFlight /\ (storage => nops < MaxOps) /\ clear_history
  \/ \E id \in {StaleConv, MissingConv} :
       InFlight /\ load_conversation(id) /\ UNCHANGED nops

SpecMidStream == InitMidStream /\ [][NextMidStream]_vars

(* ---------------------------------------------------------------------- *)
(* Specification of the request of one stream_chat call on the HTTP        *)
(* adapter, over drawn message lists                                       *)
(* ---------------------------------------------------------------------- *)
\* messages per drawn list
MaxMsgs == 2

\* image bytes: every recognised header, and bytes that miss one
WebpImage == RIFF \o <<0, 0, 0, 0>> \o WEBP
WaveBytes == RIFF \o <<0, 0, 0, 0>> \o <<87, 65, 86, 69>>
ConvertImages ==
  { PngImage, JPEGMarker \o <<224>>, GIF87a, GIF89a, WebpImage, WaveBytes, RIFF,
    << >>, SubSeq(PNGSignature, 1, 7), <<255, 216>>, <<0>> }

ConvertImageLists ==
  {<< >>} \cup {<<i>> : i \in ConvertImages}
  \cup {<<PngImage, WebpImage>>, <<WebpImage, PngImage>>}

\* documents: text and markdown that decode, that do not, other types
FileTxt == <<"f", ".", "t", "x", "t">>
FileMd == <<"n", ".", "m", "d">>
FilePdf == <<"r", ".", "p", "d", "f">>
FileUpper == <<"F", ".", "T", "X", "T">>
BadTxtDocument == <<FileTxt, <<100, 255>>>>
PdfDocument == <<FilePdf, <<37, 255>>>>
ConvertDocuments ==
  { TxtDocument, <<FileMd, <<195, 169>>>>, PdfDocument, BadTxtDocument,
    <<FileMd, <<195>>>>, <<FileUpper, <<100>>>>, <<FileTxt, << >>>> }

ConvertDocumentLists ==
  {<< >>} \cup {<<d>> : d \in ConvertDocuments}
  \cup {<<TxtDocument, PdfDocument>>, <<BadTxtDocument, PdfDocument>>,
        <<PdfDocument, BadTxtDocument>>}

ConvertContents == {NoText, <<"h">>}

ConvertMessages ==
       {Message(r, c, << >>, << >>) :
          r \in {"system", "user", "assistant"}, c \in ConvertContents}
  \cup {Message("user", c, im, << >>) :
          c \in ConvertContents, im \in ConvertImageLists}
  \cup {Message("user", c, << >>, d) :
          c \in ConvertContents, d \in ConvertDocumentLists}
  \cup {Message(r, <<"h">>, <<PngImage>>, <<TxtDocument>>) :
          r \in {"system", "user", "assistant"}}
  \cup {Message("user", <<"h">>, <<PngImage, WebpImage>>,
                <<BadTxtDocument, PdfDocument>>)}

ConvertInputs == UNION {[1..n -> ConvertMessages] : n \in 0..MaxMsgs}

ConvertConnInputs == {Conn("", 200, TRUE), Conn("ConnectError", 0, FALSE)}

InitConvert ==
  /\ messages = << >>
  /\ current_model_key = DefaultModel
  /\ current_agent_key = DefaultAgent
  /\ conversation_id = None
  /\ conversation_title_set = FALSE
  /\ storage = FALSE
  /\ db = EmptyStore
  /\ pc = "idle"
  /\ call = NoCall
  /\ provider = "openai_compatible"
  /\ provider_config = ConfigModels[DefaultModel]
  /\ messages_to_send \in ConvertInputs
  /\ assistant_message = NoText
  /\ assistant_reasoning = NoText
  /\ yielded = << >>
  /\ outcome = "none"
  /\ nops = 0
  /\ apc = "new"
  /\ wire = << >>
  /\ pending = << >>
  /\ produced = << >>
  /\ content_block_types = NoTypes
  /\ aexc = ""
  /\ amsg = NoText
  /\ payload = << >>
  /\ parked = NoFrame
  /\ okrun = << >>

NextConvert == \E c \in ConvertConnInputs : AdapterConnect(c) /\ Consumer

SpecConvert == InitConvert /\ [][NextConvert]_vars

(* ---------------------------------------------------------------------- *)
(* Properties                                                              *)
(* ---------------------------------------------------------------------- *)
UserTurnOf(c) == Message("user", c.user_message, c.images, c.documents)

\* a stream_response call starts in this step
CallStarts == pc = "idle" /\ call' # NoCall /\ nops' = nops + 1

C2_FailureLeavesUserTurn ==
  (pc = "idle" /\ apc = "raised")
    => /\ outcome = aexc
       /\ messages = Append(call.before, UserTurnOf(call))
       /\ \A id \in ConvIds :
            db[id].messages =
              IF storage /\ id = conversation_id
              THEN Append(call.db_before[id].messages,
                          PersistedMessage("user", call.user_message, None,
                                           call.images, call.documents))
              ELSE call.db_before[id].messages

\* C2 witness: the provider raised after content chunks were delivered
C2_Witness ==
  /\ pc = "idle"
  /\ apc = "raised"
  /\ Len(wire) >= 2
  /\ ConcatField(yielded, "content") # NoText
  /\ outcome = "RateLimitError"
  /\ Len(messages) = 1

AlternatesFromUser(msgs) ==
  \A i \in 1..Len(msgs) :
     msgs[i].role = IF i % 2 = 1 THEN "user" ELSE "assistant"

\* C3 as stated: when the history was built from empty by N calls that all
\* completed without an error, it has 2N turns that alternate from user,
\* whatever the streams carried.
C3_TwoTurnsPerCall ==
  (pc = "idle" /\ okrun # Tainted)
    => Len(messages) = 2 * Len(okrun) /\ AlternatesFromUser(messages)

\* C3 amended: when the history was built from empty by N calls that all
\* completed without an error and whose streams each carried some non-empty
\* content, it has 2N turns that alternate from user.
C3_TwoTurnsPerContentCall ==
  (pc = "idle" /\ okrun # Tainted /\ \A i \in 1..Len(okrun) : okrun[i] = "content")
    => Len(messages) = 2 * Len(okrun) /\ AlternatesFromUser(messages)

\* C3 witness: two calls with content completed one after the other
C3_Witness ==
  /\ pc = "idle"
  /\ okrun = <<"content", "content">>
  /\ Len(messages) = 4
  /\ outcome = "ok"

\* C4: while a call streams the history is the history before the call plus
\* the user turn, from the creation of the provider's generator on; the
\* request is sent and chunks are delivered only in that state; the one other
\* change of the history is the assistant turn, appended at the end, in the
\* step in which the provider's sequence ends, when every chunk was delivered;
\* a provider that raises leaves the user turn recorded.
C4_TurnOrdering ==
  [][ /\ pc' = "streaming" => messages' = Append(call'.before, UserTurnOf(call'))
      /\ (apc = "new" /\ apc' # "new")
           => messages = Append(call.before, UserTurnOf(call))
      /\ yielded' # yielded /\ yielded' # << >>
           => messages' = messages /\ messages[Len(messages)].role = "user"
      /\ (pc = "streaming" /\ messages' # messages)
           => /\ apc' = "ended"
              /\ pending = << >>
              /\ yielded = produced
              /\ Len(messages') = Len(messages) + 1
              /\ SubSeq(messages', 1, Len(messages)) = messages
              /\ messages'[Len(messages')].role = "assistant"
      /\ (pc = "streaming" /\ apc' = "raised")
           => messages' = Append(call.before, UserTurnOf(call)) ]_vars

\* C4 witness: a call on a non-empty history ended after a done chunk and
\* recorded both turns behind the earlier ones
C4_Witness ==
  /\ pc = "idle"
  /\ outcome = "ok"
  /\ call.before # << >>
  /\ Len(messages) = Len(call.before) + 2
  /\ \E i \in 1..Len(yielded) : yielded[i].done
  /\ messages[Len(messages)].role = "assistant"

Tokens(text) == {text[i] : i \in 1..Len(text)}

\* C5: when the provider's sequence ends and the delivered chunks carried
\* content, the history gets one assistant turn whose content is the
\* concatenation of the chunks' content fields in delivery order; the
\* reasoning goes to the store only; the outbound list of a call is the
\* history behind at most one system message, and no reasoning that the store
\* holds is in it.
C5_AssistantTurnContent ==
  [][ /\ (pc = "streaming" /\ apc' = "ended"
            /\ ConcatField(yielded, "content") # NoText)
           => /\ messages' = Append(messages,
                   Message("assistant", ConcatField(yielded, "content"),
                           << >>, << >>))
              /\ (storage /\ conversation_id # None)
                   => db'[conversation_id].messages =
                        Append(db[conversation_id].messages,
                          PersistedMessage("assistant",
                            ConcatField(yielded, "content"),
                            IF ConcatField(yielded, "reasoning") # NoText
                            THEN ConcatField(yielded, "reasoning") ELSE None,
                            << >>, << >>))
      /\ (pc = "idle" /\ pc' = "streaming")
           => /\ \E n \in {0, 1} :
                   /\ Len(messages_to_send') = n + Len(messages')
                   /\ SubSeq(messages_to_send', n + 1, Len(messages_to_send'))
                        = messages'
                   /\ n = 1 => messages_to_send'[1].role = "system"
              /\ \A i \in 1..Len(messages_to_send') :
                   "r" \notin Tokens(messages_to_send'[i].content) ]_vars

\* C5 witness: a reasoning chunk and a content chunk were delivered; the
\* assistant turn holds the content, the store holds the reasoning beside it
C5_Witness ==
  /\ pc = "idle"
  /\ outcome = "ok"
  /\ ConcatField(yielded, "reasoning") = <<"a">>
  /\ messages[Len(messages)] = Message("assistant", <<"b">>, << >>, << >>)
  /\ conversation_id = StaleConv
  /\ db[StaleConv].messages[Len(db[StaleConv].messages)].reasoning = <<"a">>

\* the chunks the events of a wire log give, event by event
RECURSIVE ChunksOfWire(_, _, _)
ChunksOfWire(p, w, types) ==
  IF w = << >> THEN << >>
  ELSE LET r == ProcessEvent(p, Head(w), types)
       IN r.chunks \o ChunksOfWire(p, Tail(w), r.types)

\* C6: what stream_response yields is what the adapter produced, chunk by
\* chunk; the chunks of the events read so far are delivered or are the
\* undelivered rest of the latest event; a wire event is read only when every
\* chunk of the events before it was delivered.
C6_ChunkDelivery ==
  [][ (pc = "streaming")
        => /\ yielded' = produced'
           /\ yielded' \o pending' = ChunksOfWire(provider', wire', NoTypes)
           /\ wire' # wire
                => /\ pending = << >>
                   /\ yielded = ChunksOfWire(provider, wire, NoTypes) ]_vars

\* C6 witness: two content chunks and a done chunk were delivered in the
\* order of their events
C6_Witness ==
  /\ pc = "idle"
  /\ Len(wire) = 3
  /\ yielded = << ContentChunk(<<"a">>), ContentChunk(<<"b">>), DoneChunk >>
  /\ yielded = produced

ServiceFields == <<messages, current_model_key, current_agent_key,
                   conversation_id, conversation_title_set, db>>

\* what every step of set_model and of set_agent does: the steps that can
\* be one of them
MaySetKey ==
  /\ Idle
  /\ outcome' \in {"none", "ValueError"}
  /\ conversation_id' = conversation_id
  /\ messages' = messages

C8_KeysResolve ==
  current_model_key \in ModelKeys /\ current_agent_key \in AgentKeys

(* ---------------------------------------------------------------------- *)
(* Well-formed wire streams and their visible text                         *)
(* ---------------------------------------------------------------------- *)
IsTerminal(e) == e.t = "messageStop" \/ (e.t = "metadata" /\ e.fin)

\* cloud: a terminal event arrives, only metadata and message-stop events
\* follow it, and no error event or transport failure occurs.
\* HTTP: SSE lines with valid payloads, closed by the [DONE] line.
WellFormed(p, w) ==
  IF p = "bedrock"
  THEN /\ \E i \in 1..Len(w) : IsTerminal(w[i])
       /\ \A i \in 1..Len(w) : w[i].t \notin {"error", "raise"}
       /\ \A i, j \in 1..Len(w) :
            (i < j /\ IsTerminal(w[i])) => w[j].t \in {"metadata", "messageStop"}
  ELSE /\ w # << >>
       /\ w[Len(w)] = LDone
       /\ \A i \in 1..(Len(w) - 1) :
            /\ w[i].t \in {"blank", "comment", "data"}
            /\ w[i].t = "data" => w[i].kind = "json"

\* the delta at position i belongs to a block whose latest start before i
\* said reasoning
InReasoningBlock(w, i) ==
  \E j \in 1..(i - 1) :
     /\ w[j].t = "contentBlockStart" /\ w[j].idx = w[i].idx
     /\ w[j].kind = "thinking"
     /\ \A m \in (j + 1)..(i - 1) :
          ~(w[m].t = "contentBlockStart" /\ w[m].idx = w[i].idx
            /\ w[m].kind # "nostart")

IsVisibleDelta(p, w, i) ==
  IF p = "bedrock"
  THEN w[i].t = "contentBlockDelta" /\ w[i].has /\ ~InReasoningBlock(w, i)
  ELSE w[i].t = "data" /\ w[i].kind = "json" /\ w[i].has

RECURSIVE VisibleTextUpTo(_, _, _)
VisibleTextUpTo(p, w, n) ==
  IF n = 0 THEN NoText
  ELSE VisibleTextUpTo(p, w, n - 1)
       \o (IF IsVisibleDelta(p, w, n) THEN w[n].text ELSE NoText)

VisibleText(p, w) == VisibleTextUpTo(p, w, Len(w))

\* C9: when stream_chat ends on a well-formed wire stream, the content of
\* its chunks concatenates to the visible text deltas of the stream in wire
\* order, and its last chunk is a done chunk.
C9_ContentAndDone ==
  (apc = "ended" /\ WellFormed(provider, wire))
    => /\ ConcatField(produced, "content") = VisibleText(provider, wire)
       /\ produced # << >>
       /\ produced[Len(produced)].done

\* C9 witness: a cloud stream of two text deltas and a stop ended with the
\* two content chunks and a done chunk
C9_Witness ==
  /\ apc = "ended"
  /\ provider = "bedrock"
  /\ WellFormed(provider, wire)
  /\ Len(produced) = 3
  /\ ConcatField(produced, "content") = <<"a", "b">>
  /\ produced[3].done

\* C10: the cloud adapter yields at most one done chunk, nothing after it,
\* and reads no wire event after a terminal event.
C10_OneDoneThenEnd ==
  provider = "bedrock"
    => /\ \A i \in 1..Len(produced \o pending) :
            (produced \o pending)[i].done => i = Len(produced \o pending)
       /\ \A i \in 1..(Len(wire) - 1) : ~IsTerminal(wire[i])

(* ---------------------------------------------------------------------- *)
(* Errors of the adapters                                                  *)
(* ---------------------------------------------------------------------- *)
\* C11: once the cloud adapter has read an error event, that event is the
\* last one it read, ProviderError has escaped, every chunk of the events
\* before it was yielded in order, and no chunk is pending or was yielded
\* for the error event.
C11_ErrorEventAborts ==
  (provider = "bedrock" /\ \E i \in 1..Len(wire) : wire[i].t = "error")
    => /\ wire[Len(wire)].t = "error"
       /\ \A i \in 1..(Len(wire) - 1) : wire[i].t # "error"
       /\ apc = "raised"
       /\ aexc = "ProviderError"
       /\ pending = << >>
       /\ produced = ChunksOfWire("bedrock",
                                  SubSeq(wire, 1, Len(wire) - 1), NoTypes)

\* C11 witness: an error event arrived behind two text deltas
C11_Witness ==
  /\ provider = "bedrock"
  /\ apc = "raised"
  /\ Len(wire) = 3
  /\ wire[3].t = "error"
  /\ Len(produced) = 2
  /\ ConcatField(produced, "content") = <<"a", "b">>

\* the error kind the claims name for a vendor error code
ClientErrorKind(code) ==
  IF code \in {"UnrecognizedClientException", "InvalidSignatureException",
               "AccessDeniedException", "ResourceNotFoundException"}
  THEN "AuthenticationError"
  ELSE IF code = "ThrottlingException" THEN "RateLimitError"
  ELSE "ProviderError"

\* what the cloud adapter has to raise when x is raised inside stream_chat
BedrockRaises(x) ==
  /\ apc' = "raised"
  /\ x \in ClientErrors
       => /\ aexc' = ClientErrorKind(ErrorCode(x))
          /\ aexc' = "ProviderError"
               => /\ Len(amsg') > Len(ErrorMessage(x))
                  /\ SubSeq(amsg', Len(amsg') - Len(ErrorMessage(x)) + 1,
                            Len(amsg')) = ErrorMessage(x)
  /\ x = "BotoCoreError" => aexc' = "ConnectionError"

C13_StatusClassification ==
  [][ provider = "openai_compatible"
        => \A c \in HttpConnInputs :
             (c.exc = "" /\ AdapterConnect(c))
               => /\ c.status = 401 => aexc' = "AuthenticationError"
                  /\ c.status = 429 => aexc' = "RateLimitError"
                  /\ (c.status >= 400 /\ c.status \notin {401, 429})
                       => aexc' = "ProviderError"
                  /\ c.status >= 400
                       => apc' = "raised" /\ wire' = << >> /\ produced' = << >>
                  /\ c.status \notin 200..299 => apc' # "reading" ]_vars

HttpTaxonomy == {"AuthenticationError", "RateLimitError", "ConnectionError",
                 "ProviderError"}

\* what the HTTP adapter has to raise when x is raised by the transport
HttpRaises(x) ==
  /\ apc' = "raised"
  /\ aexc' \in HttpTaxonomy
  /\ x = "ConnectError" => aexc' = "ConnectionError"
  /\ x = "TimeoutException"
       => aexc' = "ConnectionError" /\ amsg' # <<"Cannot connect">>
  /\ x \notin {"ConnectError", "TimeoutException"} => aexc' = "ProviderError"

\* C14: whatever escapes the HTTP adapter is of the provider taxonomy: a
\* connect failure is a ConnectionError, a timeout (of the request or of a
\* line read) a ConnectionError with another message, the error the status
\* check raised escapes with its kind and message, anything else is a
\* ProviderError.
C14_ExceptionMapping ==
  [][ provider = "openai_compatible"
        => /\ \A c \in HttpConnInputs :
                (c.exc # "" /\ AdapterConnect(c)) => HttpRaises(c.exc)
           /\ \A c \in HttpConnInputs :
                (c.exc = "" /\ AdapterConnect(c) /\ apc' = "raised")
                  => Exc(aexc', amsg') = HttpStatusRaise(c.status)
           /\ \A x \in HttpExceptions :
                AdapterRead(Raise(x)) => HttpRaises(x) ]_vars

\* C14 witness: a line read timed out after a chunk was yielded
C14_Witness ==
  /\ provider = "openai_compatible"
  /\ apc = "raised"
  /\ aexc = "ConnectionError"
  /\ amsg = <<"timed out">>
  /\ produced # << >>

(* ---------------------------------------------------------------------- *)
(* The provider factory                                                    *)
(* ---------------------------------------------------------------------- *)
SupportedTags == {ProviderType[i] : i \in DOMAIN ProviderType}
Names(msg, tag) == \E i \in DOMAIN msg : msg[i] = tag

C16_AbandonDiscards ==
  (pc = "idle" /\ apc = "closed")
    => /\ outcome = "GeneratorExit"
       /\ Len(messages) = Len(call.before) + 1
       /\ messages = Append(call.before, UserTurnOf(call))
       /\ messages[Len(messages)].role = "user"
       /\ \A id \in ConvIds :
            db[id].messages =
              IF storage /\ id = conversation_id
              THEN Append(call.db_before[id].messages,
                          PersistedMessage("user", call.user_message, None,
                                           call.images, call.documents))
              ELSE call.db_before[id].messages

\* C16 witness: abandoned right after the done chunk, content accumulated
C16_Witness ==
  /\ pc = "idle"
  /\ apc = "closed"
  /\ yielded # << >>
  /\ yielded[Len(yielded)].done
  /\ assistant_message # NoText
  /\ Len(yielded) = 3
  /\ Len(messages) = 1

(* ---------------------------------------------------------------------- *)
(* clear_history                                                           *)
(* ---------------------------------------------------------------------- *)
\* every clear_history leaves an empty history
ClearEmpties == (Idle /\ clear_history) => (messages' = << >> /\ Len(messages') = 0)

\* a call that starts on the empty history a clear leaves sends the optional
\* system message and its own user turn, nothing else
OutboundIsFresh ==
  (CallStarts /\ messages = << >> /\ pc' = "streaming")
    => /\ Len(messages_to_send') \in {1, 2}
       /\ messages_to_send'[Len(messages_to_send')] = UserTurnOf(call')
       /\ \A i \in 1..(Len(messages_to_send') - 1) :
            messages_to_send'[i].role = "system"

\* the call that started on the empty history ends without an error
EndsOkOnCleared ==
  pc = "streaming" /\ pc' = "idle" /\ apc' = "ended" /\ call.before = << >>

UserThenAssistant(msgs, c) ==
  /\ Len(msgs) = 2
  /\ msgs[1] = UserTurnOf(c)
  /\ msgs[2].role = "assistant"
  /\ msgs[2].content = ConcatField(yielded, "content")

\* C17 as stated: clear_history empties the history from any state, and a
\* following call that ends without an error leaves exactly its user turn
\* followed by its assistant turn, whatever its stream carried; its outbound
\* list has no message from before the clear.
C17_ClearThenCall ==
  [][ /\ ClearEmpties
      /\ OutboundIsFresh
      /\ EndsOkOnCleared => UserThenAssistant(messages', call) ]_vars

\* C17 amended: clear_history empties the history from any state, and a
\* following call that ends without an error and whose stream carried some
\* non-empty content leaves exactly its user turn followed by its assistant
\* turn; its outbound list has no message from before the clear.
C17_ClearThenContentCall ==
  [][ /\ ClearEmpties
      /\ OutboundIsFresh
      /\ (EndsOkOnCleared /\ ConcatField(yielded, "content") # NoText)
           => UserThenAssistant(messages', call) ]_vars

\* C17 witness: a first call left turns in the history, the history was
\* cleared, and a second call with content completed on the empty history
C17_Witness ==
  /\ pc = "idle"
  /\ outcome = "ok"
  /\ ~storage
  /\ nops = 2
  /\ call.before = << >>
  /\ call.user_message # NoText
  /\ Len(messages_to_send) = 2
  /\ messages_to_send[1].role = "system"
  /\ messages = << UserTurnOf(call),
                   Message("assistant", ConcatField(yielded, "content"), << >>, << >>) >>

(* ---------------------------------------------------------------------- *)
(* Demultiplexing of the cloud stream                                      *)
(* ---------------------------------------------------------------------- *)
\* the block-start events for index i before position n that classify
ClassifyingStarts(w, i) ==
  {j \in 1..Len(w) : /\ w[j].t = "contentBlockStart"
                     /\ w[j].idx = i
                     /\ w[j].kind # "nostart"}

Latest(S) == CHOOSE j \in S : \A k \in S : k <= j

\* the most recent classifying block-start for index i says reasoning
ClassifiedReasoning(w, i) ==
  /\ ClassifyingStarts(w, i) # {}
  /\ w[Latest(ClassifyingStarts(w, i))].kind = "thinking"

NamedEventTypes ==
  {"contentBlockStart", "contentBlockDelta", "metadata", "messageStop", "error"}

LineRead == wire'[Len(wire')]
ReadsLine ==
  provider = "openai_compatible" /\ Len(wire') = Len(wire) + 1 /\ LineRead.t # "raise"

\* the end-marker line: 'data: ' followed by [DONE], whitespace aside
IsDoneLine(raw) ==
  /\ startswith(Strip(raw), DataPrefix)
  /\ Strip(SubSeq(Strip(raw), 3, Len(Strip(raw)))) = <<"[DONE]">>

\* C19: a blank line, a line that starts with ':' and a line without the
\* 'data: ' prefix (each taken with the surrounding whitespace removed) yield
\* no chunk and the adapter reads on; the 'data: [DONE]' line yields one done
\* chunk and the adapter stops reading: once that line is read no line is read
\* and no chunk is yielded other than that done chunk, which is the last.
C19_SSEFraming ==
  [][ /\ ReadsLine =>
           /\ ( \/ Strip(LineRead.line) = << >>
                \/ Head(Strip(LineRead.line)) = ":"
                \/ ~startswith(Strip(LineRead.line), <<"data:", " ">>) )
                => pending' = << >> /\ apc' = "reading"
           /\ IsDoneLine(LineRead.line)
                => pending' = <<DoneChunk>> /\ apc' = "returning"
      /\ ( /\ provider = "openai_compatible"
           /\ wire # << >>
           /\ wire[Len(wire)].t # "raise"
           /\ IsDoneLine(wire[Len(wire)].line) )
           => /\ wire' = wire
              /\ produced' \o pending' = produced \o pending
              /\ Len(produced \o pending) >= 1
              /\ (produced \o pending)[Len(produced \o pending)] = DoneChunk
              /\ apc' \in {"returning", "ended"} ]_vars

\* C19 witness: a line that lacks the space of the prefix gave nothing, the
\* end marker gave the done chunk and the generator ended with room to read
C19_Witness ==
  /\ provider = "openai_compatible"
  /\ apc = "ended"
  /\ Len(wire) = 2
  /\ wire[1].line = <<"data:", "[DONE]">>
  /\ wire[2].line = <<"data:", " ", "[DONE]">>
  /\ produced = <<DoneChunk>>
  /\ pending = << >>

\* a data line whose payload is the text of a JSON object
IsJsonLine(raw) ==
  /\ startswith(Strip(raw), DataPrefix)
  /\ Strip(SubSeq(Strip(raw), 3, Len(Strip(raw)))) = <<"{}">>

CountWhere(chunks, field) ==
  Cardinality({i \in 1..Len(chunks) : chunks[i][field] # StreamChunk(NoText, NoText, FALSE, FALSE)[field]})

\* C20: one JSON data line yields exactly one content chunk with the first
\* choice's delta content when that content is non-empty, then one done chunk
\* when the first choice carries a finish reason, and nothing else: no chunk
\* for a line without choices or with neither content nor finish reason, and
\* no chunk for any choice after the first.
C20_JsonLine ==
  [][ (ReadsLine /\ IsJsonLine(LineRead.line)) =>
        LET e == LineRead
            content == e.has /\ e.text # NoText
            finish == e.has /\ e.fin
        IN /\ Len(pending') = (IF content THEN 1 ELSE 0) + (IF finish THEN 1 ELSE 0)
           /\ content => pending'[1] = StreamChunk(e.text, NoText, FALSE, FALSE)
           /\ finish => pending'[Len(pending')] = StreamChunk(NoText, NoText, FALSE, TRUE)
           /\ CountWhere(pending', "content") = (IF content THEN 1 ELSE 0)
           /\ CountWhere(pending', "done") = (IF finish THEN 1 ELSE 0)
           /\ (~e.has \/ (e.text = NoText /\ ~e.fin)) => pending' = << >>
           /\ \A i \in 1..Len(pending') :
                \A j \in 1..Len(e.rest) :
                   pending'[i].content # e.rest[j].content
           /\ apc' = "reading" ]_vars

\* C20 witness: a line whose second choice has content and a finish reason
\* gave the first choice's content only; a line with content and a finish
\* reason gave the content chunk and then the done chunk
C20_Witness ==
  /\ provider = "openai_compatible"
  /\ wire = << LJsonMore(TRUE, <<"a">>, FALSE, <<Choice(<<"b">>, TRUE)>>),
               LJson(TRUE, <<"b">>, TRUE) >>
  /\ produced = << StreamChunk(<<"a">>, NoText, FALSE, FALSE),
                   StreamChunk(<<"b">>, NoText, FALSE, FALSE),
                   StreamChunk(NoText, NoText, FALSE, TRUE) >>
  /\ pending = << >>
  /\ apc = "reading"

(* ---------------------------------------------------------------------- *)
(* Malformed JSON on the HTTP stream                                       *)
(* ---------------------------------------------------------------------- *)
\* a data line whose payload is neither the end marker nor text that parses
IsMalformedLine(e) ==
  /\ e.t # "raise"
  /\ startswith(Strip(e.line), DataPrefix)
  /\ Strip(SubSeq(Strip(e.line), 3, Len(Strip(e.line))))
       \notin {<<"[DONE]">>, <<"{}">>, <<"5">>}

RemoveMalformed(w) == SelectSeq(w, LAMBDA e : ~IsMalformedLine(e))

\* C21: a data line whose payload is not valid JSON yields no chunk and
\* raises nothing, the adapter reads on, and the chunks the adapter gives for
\* a stream are the chunks it gives for the stream without its malformed lines.
C21_MalformedSkipped ==
  [][ provider' = "openai_compatible" =>
        /\ produced' \o pending' =
             ChunksOfWire("openai_compatible", RemoveMalformed(wire'), NoTypes)
        /\ (ReadsLine /\ IsMalformedLine(LineRead))
             => /\ pending' = << >>
                /\ apc' = "reading"
                /\ aexc' = ""
                /\ produced' = produced ]_vars

\* C21 witness: a malformed line between two JSON lines; the chunks are those
\* of the two JSON lines
C21_Witness ==
  /\ provider = "openai_compatible"
  /\ wire = <<LJson(TRUE, <<"a">>, FALSE), LMalformed, LJson(TRUE, <<"b">>, TRUE)>>
  /\ produced = <<ContentChunk(<<"a">>), ContentChunk(<<"b">>), DoneChunk>>
  /\ apc = "reading"

(* ---------------------------------------------------------------------- *)
(* Message translation of the HTTP adapter                                 *)
(* ---------------------------------------------------------------------- *)
\* the request was built from the messages passed to stream_chat
Converted == provider = "openai_compatible" /\ apc \notin {"none", "new"}

\* parts are the text parts of some of the documents, in the documents' order
RECURSIVE InDocumentOrder(_, _)
InDocumentOrder(parts, documents) ==
  IF parts = << >> THEN TRUE
  ELSE IF documents = << >> THEN FALSE
  ELSE IF parts[1].type = "text"
          /\ startswith(parts[1].text,
                        <<"\n\n[Document: ">> \o documents[1][1] \o <<"]\n">>)
       THEN InDocumentOrder(Tail(parts), Tail(documents))
       ELSE InDocumentOrder(parts, Tail(documents))

\* C22: the payload has one entry per message, in order, with the message's
\* role; a message without images and documents, and every system message,
\* has its content as a bare string; a non-system message with an image or a
\* document has a content-part array: the text part first, present only for a
\* non-empty content, then one image part per image in order, then the
\* document parts in the documents' order.
C22_MessageTranslation ==
  Converted =>
    /\ Len(payload) = Len(messages_to_send)
    /\ \A i \in 1..Len(payload) :
         LET msg == messages_to_send[i]
             entry == payload[i]
             t == IF msg.content # NoText THEN 1 ELSE 0
             n == Len(msg.images)
             parts == entry.content.parts
         IN /\ entry.role = msg.role
            /\ (msg.images = << >> /\ msg.documents = << >>)
                 => entry.content.type = "string" /\ entry.content.text = msg.content
            /\ msg.role = "system"
                 => entry.content.type = "string" /\ entry.content.text = msg.content
            /\ (msg.role # "system" /\ (msg.images # << >> \/ msg.documents # << >>))
                 => /\ entry.content.type = "array"
                    /\ Len(parts) >= t + n
                    /\ t = 1 => parts[1].type = "text" /\ parts[1].text = msg.content
                    /\ \A j \in 1..n :
                         /\ parts[t + j].type = "image_url"
                         /\ parts[t + j].image_url[1].data = b64encode(msg.images[j])
                    /\ Len(parts) <= t + n + Len(msg.documents)
                    /\ InDocumentOrder(SubSeq(parts, t + n + 1, Len(parts)),
                                       msg.documents)

\* C22 witness: a system message with attachments went out as a string, a
\* user message with text, an image and a document as text part, image part,
\* document part
C22_Witness ==
  /\ Converted
  /\ messages_to_send =
       << Message("system", <<"h">>, <<PngImage>>, <<TxtDocument>>),
          Message("user", <<"h">>, <<PngImage>>, <<TxtDocument>>) >>
  /\ payload[1].content.type = "string"
  /\ payload[2].content.type = "array"
  /\ Len(payload[2].content.parts) = 3
  /\ payload[2].content.parts[1].text = <<"h">>
  /\ payload[2].content.parts[2].type = "image_url"
  /\ payload[2].content.parts[3].type = "text"

\* the parts after the text part and the image parts of entry i
DocumentPartsOf(i) ==
  LET msg == messages_to_send[i]
      t == IF msg.content # NoText THEN 1 ELSE 0
      parts == payload[i].content.parts
  IN SubSeq(parts, t + Len(msg.images) + 1, Len(parts))

IsTextDocument(filename) ==
  \/ endswith(filename, <<".", "t", "x", "t">>)
  \/ endswith(filename, <<".", "m", "d">>)

\* C23: for every non-system message with attachments the array holds one
\* text part per document, in the documents' order; the part of a .txt or .md
\* document is the '[Document: name]' header followed by the document's text,
\* the part of any other document is the header alone; also for a .txt or .md
\* document whose bytes do not decode.
C23_OnePartPerDocument ==
  Converted =>
    \A i \in 1..Len(payload) :
       LET msg == messages_to_send[i]
           docs == DocumentPartsOf(i)
       IN (msg.role # "system" /\ (msg.images # << >> \/ msg.documents # << >>))
            => /\ Len(docs) = Len(msg.documents)
               /\ \A k \in 1..Len(msg.documents) :
                    LET filename == msg.documents[k][1]
                        header == <<"\n\n[Document: ">> \o filename \o <<"]\n">>
                    IN /\ docs[k].type = "text"
                       /\ startswith(docs[k].text, header)
                       /\ ~IsTextDocument(filename) => docs[k].text = header
                       /\ (IsTextDocument(filename) /\ decode_utf8(msg.documents[k][2]).ok)
                            => docs[k].text =
                                 header \o decode_utf8(msg.documents[k][2]).text \o <<"\n">>

(* ---------------------------------------------------------------------- *)
(* Image format sniffing                                                   *)
(* ---------------------------------------------------------------------- *)
\* the format the leading bytes stand for, read off byte by byte
HasBytesAt(b, offset, bytes) ==
  /\ Len(b) >= offset + Len(bytes)
  /\ \A k \in 1..Len(bytes) : b[offset + k] = bytes[k]

SniffedFormat(b) ==
  CASE HasBytesAt(b, 0, <<137, 80, 78, 71, 13, 10, 26, 10>>) -> "png"
    [] HasBytesAt(b, 0, <<255, 216, 255>>) -> "jpeg"
    [] HasBytesAt(b, 0, <<71, 73, 70, 56, 55, 97>>) -> "gif"
    [] HasBytesAt(b, 0, <<71, 73, 70, 56, 57, 97>>) -> "gif"
    [] HasBytesAt(b, 0, <<82, 73, 70, 70>>) /\ HasBytesAt(b, 8, <<87, 69, 66, 80>>) -> "webp"
    [] OTHER -> "png"

\* the image parts of entry i, in order
ImagePartsOf(i) ==
  SelectSeq(payload[i].content.parts, LAMBDA part : part.type = "image_url")

\* C24: every byte string gets a format, decided by its leading bytes: png
\* for the PNG signature, jpeg for the SOI marker, gif for GIF87a and GIF89a,
\* webp for RIFF with WEBP at offset 8, and png for every other byte string,
\* the empty one and RIFF without WEBP included; the data URL of each image
\* part has the MIME type image/ followed by that format.
C24_ImageSniffing ==
  Converted =>
    \A i \in 1..Len(payload) :
       LET msg == messages_to_send[i] IN
         msg.role # "system" =>
           /\ Len(ImagePartsOf(i)) = Len(msg.images)
           /\ \A j \in 1..Len(msg.images) :
                LET url == ImagePartsOf(i)[j].image_url[1] IN
                  /\ url.mime_type = <<"image/", SniffedFormat(msg.images[j])>>
                  /\ url.mime_type[2] \in {"png", "jpeg", "gif", "webp"}
                  /\ url.scheme = "data:"
                  /\ url.encoding = ";base64,"

\* C24 witness: a WEBP image and RIFF bytes that are not WEBP in one request
C24_Witness ==
  /\ Converted
  /\ Len(messages_to_send) = 2
  /\ messages_to_send[1] = Message("user", NoText, <<WebpImage>>, << >>)
  /\ messages_to_send[2] = Message("user", NoText, <<WaveBytes>>, << >>)
  /\ payload[1].content.parts[1].image_url[1].mime_type = <<"image/", "webp">>
  /\ payload[2].content.parts[1].image_url[1].mime_type = <<"image/", "png">>

(* ---------------------------------------------------------------------- *)
(* The outbound list                                                       *)
(* ---------------------------------------------------------------------- *)
HasSection(text) == \E i \in 1..Len(text) : text[i] = KnowledgeHeader[1]

NumReferences(text) ==
  Cardinality({i \in 1..Len(text) : text[i] = "### Reference: "})

\* the sources the knowledge service returns for a call: of the relevant ones
\* the first three, those with content
ReturnedSources(k) ==
  {i \in DOMAIN k :
     /\ k[i].is_relevant
     /\ Cardinality({j \in 1..i : k[j].is_relevant}) <= 3
     /\ k[i].content # NoText}

NoSystemTurn(msgs) == \A i \in 1..Len(msgs) : msgs[i].role # "system"

\* C25: the outbound list of a call is the history with the new user turn at
\* its end, behind exactly one system message when the active agent has
\* instructions and behind none otherwise; the system message starts with the
\* instructions, and has a Relevant Knowledge section, of at most three
\* references, only when the agent injects automatically, declares sources
\* and the knowledge service returns something; no system message is ever in
\* the history or in the store.
C25_OutboundList ==
  [][ /\ (pc = "idle" /\ pc' = "streaming") =>
           LET agent == ConfigAgents[current_agent_key]
               out == messages_to_send'
           IN /\ messages' = Append(messages, UserTurnOf(call'))
              /\ IF agent.instructions = NoText
                 THEN out = messages'
                 ELSE /\ out = <<out[1]>> \o messages'
                      /\ out[1].role = "system"
                      /\ startswith(out[1].content, agent.instructions)
                      /\ HasSection(out[1].content)
                           => /\ agent.inject_knowledge_automatically
                              /\ agent.knowledge_sources # << >>
                              /\ ReturnedSources(call'.knowledge) # {}
                      /\ ~HasSection(out[1].content)
                           => out[1].content = agent.instructions
                      /\ NumReferences(out[1].content) <= 3
                      /\ HasSection(out[1].content)
                           => NumReferences(out[1].content)
                                = Cardinality(ReturnedSources(call'.knowledge))
      /\ NoSystemTurn(messages')
      /\ \A id \in ConvIds : NoSystemTurn(db'[id].messages) ]_vars

\* C25 witness: four relevant sources, the second without content: the
\* system message holds the instructions and the references of the first and
\* the third source, and the user turn follows it
C25_Witness ==
  /\ pc = "streaming"
  /\ current_agent_key = "coder"
  /\ call.knowledge = KFour
  /\ Len(messages_to_send) = 2
  /\ messages_to_send[1].content =
       <<"i">> \o KnowledgeHeader
         \o <<"### Reference: ", "s1", "\n", "k", "s1">> \o <<"\n\n">>
         \o <<"### Reference: ", "s3", "\n", "k", "s3">>
  /\ messages_to_send[2] = UserTurnOf(call)
  /\ messages = <<UserTurnOf(call)>>

(* ---------------------------------------------------------------------- *)
(* The payload of a chunk                                                  *)
(* ---------------------------------------------------------------------- *)
PayloadKinds(c) ==
  (IF c.content # NoText THEN 1 ELSE 0)
    + (IF c.reasoning # NoText THEN 1 ELSE 0)
    + (IF c.done THEN 1 ELSE 0)

\* the chunks the generator has yielded so far
ChunksMade == produced

\* the line just read is a JSON object whose first choice has both text and a
\* finish reason
ReadsTextAndFinish ==
  /\ ReadsLine
  /\ IsJsonLine(LineRead.line)
  /\ LineRead.has /\ LineRead.text # NoText /\ LineRead.fin

SplitAndFlagged ==
  /\ \A i \in 1..Len(ChunksMade') :
       /\ ChunksMade'[i].reasoning # NoText => ChunksMade'[i].is_reasoning
       /\ ChunksMade'[i].is_reasoning => ChunksMade'[i].content = NoText
  /\ ReadsTextAndFinish
       => pending' = <<ContentChunk(LineRead.text), DoneChunk>>

\* C26 as claimed: every chunk of either adapter carries exactly one of
\* non-empty content, non-empty reasoning (flagged is_reasoning) and
\* done = true; a line with text and a finish reason gives a content chunk and
\* then a done chunk; is_reasoning never goes with non-empty content.
C26_ExactlyOnePayload ==
  [][ /\ \A i \in 1..Len(ChunksMade') : PayloadKinds(ChunksMade'[i]) = 1
      /\ SplitAndFlagged ]_vars

\* C26 amended: every chunk of either adapter carries at most one of
\* non-empty content, non-empty reasoning (flagged is_reasoning) and
\* done = true (a cloud delta with empty text gives a chunk that carries
\* none); a line with text and a finish reason gives a content chunk and then
\* a done chunk; is_reasoning never goes with non-empty content.
C26_AtMostOnePayload ==
  [][ /\ \A i \in 1..Len(ChunksMade') : PayloadKinds(ChunksMade'[i]) <= 1
      /\ SplitAndFlagged ]_vars

\* C26 witness: one line with text and a finish reason, delivered as a
\* content chunk and a done chunk
C26_Witness ==
  /\ provider = "openai_compatible"
  /\ Len(wire) = 1
  /\ IsJsonLine(wire[1].line)
  /\ wire[1].has /\ wire[1].text = <<"a">> /\ wire[1].fin
  /\ produced = <<ContentChunk(<<"a">>), DoneChunk>>

(* ---------------------------------------------------------------------- *)
(* History and store                                                       *)
(* ---------------------------------------------------------------------- *)
RolesAndContents(msgs) ==
  [i \in 1..Len(msgs) |-> [role |-> msgs[i].role, content |-> msgs[i].content]]

\* the persisted message sequence of the active conversation
PersistedTurns ==
  IF conversation_id = None THEN << >> ELSE db[conversation_id].messages

\* C28: with a storage service configured, the persisted message sequence of
\* the active conversation has the roles and contents of the in-memory
\* history, in the same order, after any sequence of new_conversation,
\* load_conversation, clear_history and stream_response, also when
\* stream_response is called before any new_conversation or
\* load_conversation.
C28_PersistenceMirrors ==
  storage => RolesAndContents(PersistedTurns) = RolesAndContents(messages)

(* ---------------------------------------------------------------------- *)
(* Two calls on one adapter                                                *)
(* ---------------------------------------------------------------------- *)
\* the chunks of the first n events of w, each delta classified by the
\* block-starts that precede it in w
RECURSIVE OwnChunks(_, _)
OwnChunks(w, n) ==
  IF n = 0 THEN << >>
  ELSE OwnChunks(w, n - 1)
       \o (IF w[n].t = "contentBlockDelta" /\ w[n].has
           THEN IF ClassifiedReasoning(SubSeq(w, 1, n - 1), w[n].idx)
                THEN <<ReasoningChunk(w[n].text)>>
                ELSE <<ContentChunk(w[n].text)>>
           ELSE << >>)

\* C27: of two stream_chat calls on one cloud adapter instance, run one after
\* the other or interleaved at their suspension points, each has the chunks
\* that its own wire events give: a block-start read by one call never
\* changes how a delta of the other call is classified.
C27_CallStateless ==
  /\ produced \o pending = OwnChunks(wire, Len(wire))
  /\ parked # NoFrame
       => parked.produced \o parked.pending
            = OwnChunks(parked.wire, Len(parked.wire))

\* C27 witness: one call read a reasoning block-start for index 0 and then a
\* delta, the other call read only a delta of index 0: a reasoning chunk in
\* the first, a content chunk in the second
C27_Witness ==
  /\ parked # NoFrame
  /\ parked.wire = <<BStart(0, "thinking"), BDelta(0, TRUE, <<"a">>)>>
  /\ parked.produced = <<ReasoningChunk(<<"a">>)>>
  /\ wire = <<BDelta(0, TRUE, <<"a">>)>>
  /\ produced = <<ContentChunk(<<"a">>)>>

(* ---------------------------------------------------------------------- *)
(* Overlapping calls on one service                                        *)
(* ---------------------------------------------------------------------- *)
IsPrefixOf(a, b) == Len(a) <= Len(b) /\ SubSeq(b, 1, Len(a)) = a

\* the running call comes to its end in this step
RunningCallEnds ==
  parked' = parked /\ pc = "streaming" /\ pc' = "idle" /\ apc' = "ended"

AssistantTurns(msgs) ==
  Cardinality({i \in 1..Len(msgs) : msgs[i].role = "assistant"})

\* calls that came to their end, of the two
EndedCalls ==
  (IF call # NoCall /\ pc = "idle" /\ outcome = "ok" THEN 1 ELSE 0)
    + (IF parked.call # NoCall /\ parked.pc = "idle" /\ parked.outcome = "ok"
       THEN 1 ELSE 0)

\* C30: when two stream_response calls on one service interleave at their
\* suspension points, a call that ends appends one assistant turn whose
\* content is the concatenation of the content of the chunks of its own
\* stream, in order, when that is non-empty, and nothing otherwise; an
\* assistant turn is appended by nothing else, so each call appends at most
\* one; entries of the history are never changed or removed.
C30_OverlapKeepsStreamsApart ==
  [][ /\ IsPrefixOf(messages, messages')
      /\ Len(messages') <= Len(messages) + 1
      /\ RunningCallEnds
           => messages' =
                messages
                  \o (IF ConcatField(produced', "content") # NoText
                      THEN <<Message("assistant",
                                     ConcatField(produced', "content"),
                                     << >>, << >>)>>
                      ELSE << >>)
      /\ AssistantTurns(messages') > AssistantTurns(messages)
           => RunningCallEnds
      /\ AssistantTurns(messages') <= EndedCalls' ]_vars

\* C30 witness: both calls are over, the first appended user turn was
\* answered last: the history is user, user, assistant b, assistant a
C30_Witness ==
  /\ EndedCalls = 2
  /\ Len(messages) = 4
  /\ messages[3] = Message("assistant", <<"b">>, << >>, << >>)
  /\ messages[4] = Message("assistant", <<"a">>, << >>, << >>)
  /\ ConcatField(produced, "content") = <<"a">>
  /\ ConcatField(parked.produced, "content") = <<"b">>

(* ---------------------------------------------------------------------- *)
(* Conversation operations during a call                                   *)
(* ---------------------------------------------------------------------- *)
\* every assistant turn of msgs comes directly after a user turn
FollowsUserTurn(msgs) ==
  \A i \in 1..Len(msgs) :
     msgs[i].role = "assistant" => (i > 1 /\ msgs[i - 1].role = "user")

\* C29: when clear_history, new_conversation or load_conversation runs at a
\* suspension point of a stream_response in flight, the assistant turn of
\* that stream lands neither in the new history nor in the store under the
\* new conversation id: in every reachable state each assistant turn of the
\* history, and of every stored conversation, comes directly after the user
\* turn of its call.
C29_TurnLandsInItsConversation ==
  /\ FollowsUserTurn(messages)
  /\ \A id \in ConvIds : FollowsUserTurn(db[id].messages)

====
